---- MODULE Spec2Model ----
(***************************************************************************)
(* ChakraCore-Debugger: the protocol handler's cross-thread command queue, *)
(* the connect/disconnect lifecycle, the drain loop and the nested pump,   *)
(* and the Debugger Core's event dispatch.                                 *)
(*                                                                         *)
(* Threads: transport threads call Connect, Disconnect, SendCommand,       *)
(* SendRequest, SetCommandQueueCallback and ConsoleAPIEvent; the engine    *)
(* thread receives the engine's debug events and runs the drain loop.  The *)
(* engine thread is a call stack of frames (HandleDebugEvent,              *)
(* ProcessCommandQueue, the C entry points), since an engine event can be  *)
(* delivered while a handler is inside an engine call.                     *)
(*                                                                         *)
(* A block of code under std::unique_lock<std::mutex> is one atomic step.  *)
(***************************************************************************)
EXTENDS Integers, Sequences, FiniteSets, TLC

\* ---------------------------------------------------------------- bounds
\* API calls made by the transport threads in one behaviour
MaxCalls == 3
\* engine debug events delivered in one behaviour (top-level and nested)
MaxEvents == 2
\* calls of the C entry points made by the host on the engine thread
MaxHostCalls == 1
\* API calls made by the transport in a behaviour of SpecBatch
MaxBatchCalls == 4
\* scripts the engine compiles in one behaviour
MaxScripts == 2
\* requests a frontend makes, and engine events, in a behaviour of SpecAgent
MaxAgentCalls == 4
MaxAgentEvents == 2
\* the same in a behaviour of SpecBreak
MaxBreakCalls == 5
MaxBreakEvents == 3
\* the same in a behaviour of SpecEval
MaxEvalCalls == 4
MaxEvalEvents == 2
\* frames of the engine's stack trace at a break
MaxFrames == 2
\* requests a frontend makes, and engine events, in a behaviour of SpecPause
MaxPauseCalls == 4
MaxPauseEvents == 2
\* calls of the host and the frontend, and engine events, in a behaviour of
\* SpecGo
MaxGoCalls == 4
MaxGoEvents == 2
\* calls of the transport, engine events and notifications of the engine
\* thread in a behaviour of SpecConn
MaxConnCalls == 4
MaxConnEvents == 2
MaxConnSends == 2

\* SpecLock: the frontend's and the host's calls, and the engine's events
MaxLockCalls == 5
MaxLockEvents == 2

\* SpecWrap: the frontend's calls and the engine's events
MaxWrapCalls == 4
MaxWrapEvents == 2

\* ------------------------------------------------------------- vocabulary
Transports == {"t1"}
EngineThread == "engine"
\* no thread: the holder of a free mutex
NoThread == "-"
HostThread == "host"

NoCallback == 0
Callbacks == {NoCallback, 1}

\* CommandType (ProtocolHandler.h), without the unused None
CommandTypes == {"Connect", "Disconnect", "MessageReceived", "HostRequest"}

StepMethods == {"Debugger.stepOver", "Debugger.stepInto", "Debugger.stepOut"}

\* payloads of MessageReceived entries: a CDP method, a request whose internal
\* operation fails ("Debugger.evaluateOnCallFrame" with an unparsable
\* callFrameId), or text that is not JSON
BadRequest == "Debugger.evaluateOnCallFrame:badId"
NotJson == "not json"
NullCommand == "nullptr"
ArgCounts == {0, 1}
Messages ==
    {"Debugger.enable", "Debugger.resume", "Runtime.enable",
     "Runtime.runIfWaitingForDebugger", "Runtime.evaluate", BadRequest, NotJson}
        \cup StepMethods

\* Maybe<T> with no value
None == "<none>"

\* Debugger.setBreakpointByUrl requests, by the parameters their JSON carries
SetBreakpointParams(m) ==
    LET p == [url |-> "a.js", urlRegex |-> None, lineNumber |-> 1, columnNumber |-> 0,
              condition |-> ""]
    IN CASE m = "Debugger.setBreakpointByUrl:a" -> p
         [] m = "Debugger.setBreakpointByUrl:b" -> [p EXCEPT !.url = "b.js"]
         [] m = "Debugger.setBreakpointByUrl:a?c" -> [p EXCEPT !.condition = "c"]
         [] m = "Debugger.setBreakpointByUrl:re" -> [p EXCEPT !.url = None, !.urlRegex = ".*"]
         [] m = "Debugger.setBreakpointByUrl:none" -> [p EXCEPT !.url = None]
         [] m = "Debugger.setBreakpointByUrl:both" -> [p EXCEPT !.urlRegex = ".*"]
         [] m = "Debugger.setBreakpointByUrl:col-1" -> [p EXCEPT !.columnNumber = -1]

SetBreakpointRequests ==
    {"Debugger.setBreakpointByUrl:a", "Debugger.setBreakpointByUrl:b",
     "Debugger.setBreakpointByUrl:a?c", "Debugger.setBreakpointByUrl:re",
     "Debugger.setBreakpointByUrl:none", "Debugger.setBreakpointByUrl:both",
     "Debugger.setBreakpointByUrl:col-1"}

\* Debugger.removeBreakpoint requests, by their breakpointId: the id that
\* setBreakpointByUrl gave for a request, or an id it never gave
RemoveBreakpointId(m) ==
    CASE m = "Debugger.removeBreakpoint:a" -> <<"Url", "a.js", 1, 0, "">>
      [] m = "Debugger.removeBreakpoint:a?c" -> <<"Url", "a.js", 1, 0, "c">>
      [] m = "Debugger.removeBreakpoint:re" -> <<"UrlRegex", ".*", 1, 0, "">>
      [] m = "Debugger.removeBreakpoint:x" -> <<"Url", "x.js", 1, 0, "">>

RemoveBreakpointRequests ==
    {"Debugger.removeBreakpoint:a", "Debugger.removeBreakpoint:a?c",
     "Debugger.removeBreakpoint:re", "Debugger.removeBreakpoint:x"}

\* Runtime.evaluate requests, by the flags their JSON carries
EvaluateParams(m) ==
    LET p == [throwOnSideEffect |-> FALSE, awaitPromise |-> FALSE, silent |-> FALSE,
              expression |-> "1"]
    IN CASE m = "Runtime.evaluate" -> p
         [] m = "Runtime.evaluate:Symbol()" -> [p EXCEPT !.expression = "Symbol()"]
         [] m = "Runtime.evaluate:throwOnSideEffect" -> [p EXCEPT !.throwOnSideEffect = TRUE]
         [] m = "Runtime.evaluate:throwOnSideEffect,awaitPromise" ->
                [p EXCEPT !.throwOnSideEffect = TRUE, !.awaitPromise = TRUE]
         [] m = "Runtime.evaluate:throwOnSideEffect,awaitPromise,silent" ->
                [p EXCEPT !.throwOnSideEffect = TRUE, !.awaitPromise = TRUE, !.silent = TRUE]
         [] m = "Runtime.evaluate:awaitPromise" -> [p EXCEPT !.awaitPromise = TRUE]
         [] m = "Runtime.evaluate:awaitPromise,silent" ->
                [p EXCEPT !.awaitPromise = TRUE, !.silent = TRUE]

EvaluateRequests ==
    {"Runtime.evaluate", "Runtime.evaluate:throwOnSideEffect",
     "Runtime.evaluate:throwOnSideEffect,awaitPromise",
     "Runtime.evaluate:throwOnSideEffect,awaitPromise,silent",
     "Runtime.evaluate:awaitPromise", "Runtime.evaluate:awaitPromise,silent"}

\* a Runtime.evaluate whose expression gives a value of a type that
\* ProtocolHelpers::WrapValue does not wrap
SymbolRequest == "Runtime.evaluate:Symbol()"

Evaluations == EvaluateRequests \cup {SymbolRequest}

\* Debugger.evaluateOnCallFrame requests, by the ordinal of their callFrameId
CallFrameOrdinal(m) ==
    CASE m = "Debugger.evaluateOnCallFrame:-1" -> -1
      [] m = "Debugger.evaluateOnCallFrame:0" -> 0
      [] m = "Debugger.evaluateOnCallFrame:1" -> 1
      [] m = "Debugger.evaluateOnCallFrame:2" -> 2

CallFrameRequests ==
    {"Debugger.evaluateOnCallFrame:-1", "Debugger.evaluateOnCallFrame:0",
     "Debugger.evaluateOnCallFrame:1", "Debugger.evaluateOnCallFrame:2"}

\* payloads of HostRequest entries
Requests == {"Debugger.go", "Debugger.deferredGo", "Debugger.stepInto", "Console.log"}

\* what the transport and the engine are given in the behaviours explored: one
\* payload of each kind that the handlers tell apart
Commands ==
    {"Debugger.enable", "Debugger.resume", "Debugger.stepOver", "Runtime.evaluate",
     BadRequest, NotJson, NullCommand}
HostRequests == {"Debugger.go", "Debugger.deferredGo"}
TwoCommands == {"Debugger.enable", "Runtime.evaluate"}
BatchCommands == {"Debugger.enable", BadRequest}
BatchEvents == {"SourceCompile"}
RaisedEvents == {"SourceCompile", "DebuggerStatement", "AsyncBreak"}

SourceEvents == {"SourceCompile", "CompileError"}
BreakEvents == {"Breakpoint", "StepComplete", "DebuggerStatement", "RuntimeException"}
DebugEvents == SourceEvents \cup BreakEvents \cup {"AsyncBreak"}

\* SkipPauseRequest values the Debugger agent's break handler returns
SkipRequests == {"NoSkip", "Continue"}

\* the engine's script ids, given in the order the scripts are compiled
Scripts == 1..MaxScripts

\* DebuggerScript::SourceUrl of the scripts the host runs
SourceUrl(s) == IF s = 1 THEN "a.js" ELSE "b.js"

\* a script id or an engine breakpoint id that is not set
NoScript == 0
NoBreakpoint == -1

\* the undefined value, where a frame of the stack trace is asked for
Undefined == -1

VARIABLES
    ph,     \* ProtocolHandler's fields
    dbg,    \* Debugger (Core) fields
    ag,     \* the domain agents' fields (DebuggerImpl, RuntimeImpl)
    eng,    \* the engine: pending async break request, events delivered
    stack,  \* per draining thread: its call stack, innermost frame last
    tr,     \* per transport thread: the API call in progress
    g       \* history: ids, dispatch log, accesses

vars == <<ph, dbg, ag, eng, stack, tr, g>>

\* ------------------------------------------------------------ world records
\* An operation of the code is a function from world to world; exc is set when
\* it throws, crash when the process is gone.
World ==
    [ph |-> ph, dbg |-> dbg, ag |-> ag, eng |-> eng, g |-> g, exc |-> FALSE, op |-> "-",
     out |-> {}, api |-> {}]

Commit(w) ==
    /\ ph' = w.ph
    /\ dbg' = w.dbg
    /\ ag' = w.ag
    /\ eng' = w.eng
    /\ g' = w.g

Throw(w) == [w EXCEPT !.exc = TRUE]

\* a guarded field is accessed by a thread that does not hold m_lock
Unguarded(w, field) == [w EXCEPT !.g.unguarded = @ \cup {field}]

\* the world as an operation called by a transport thread finds it
Called(op) == [World EXCEPT !.op = op]

\* a thread other than the engine thread, running the operation w.op, touches
\* a resource class: "queue", "callbackSlots", "requestAsyncBreak", "agent",
\* "engineApi"
Touch(w, th, what) ==
    IF th = EngineThread THEN w ELSE [w EXCEPT !.g.use = @ \cup {<<w.op, what>>}]

\* a queue entry; conn is the connection it was sent in
Entry(id, type, msg, conn) == [id |-> id, type |-> type, msg |-> msg, conn |-> conn]

\* the connection that the callback slot stands for: the number of the Connect
\* call that installed the callback, 0 while no callback is installed
Connection(w) ==
    IF w.ph.sendResponseCallback = NoCallback THEN 0
    ELSE Cardinality({i \in 1..Len(w.g.okCalls) : w.g.okCalls[i] = "Connect"})

\* a frame of a draining thread's stack; an event's frame holds the event's
\* data: the script compiled, the engine breakpoint hit; the frame of a break
\* holds the id of the Debugger.go entry that ProcessDeferredGo enqueued for
\* it (0: none)
Frame(fn, pc, ev, snap) ==
    [fn |-> fn, pc |-> pc, cur |-> <<>>, ev |-> ev, snap |-> snap,
     script |-> NoScript, hit |-> NoBreakpoint, go |-> 0]

\* ------------------------------------------------------------------- Init
InitPh ==
    [commandQueue |-> <<>>,
     sendResponseCallback |-> NoCallback,
     sendResponseCallbackState |-> NoCallback,
     commandQueueCallback |-> FALSE,
     isConnected |-> FALSE,
     waitingForDebugger |-> FALSE,
     breakOnConnect |-> FALSE,
     startupState |-> "Running",
     deferredGo |-> FALSE,
     processingCommandQueue |-> FALSE,
     agents |-> FALSE,
     wired |-> FALSE]

InitDbg ==
    [isEnabled |-> FALSE,
     isPaused |-> FALSE,
     isRunningNestedMessageLoop |-> FALSE,
     shouldPauseOnNextStatement |-> FALSE,
     sourceEventCallback |-> FALSE,
     breakEventCallback |-> FALSE,
     resumeEventCallback |-> FALSE]

\* DebuggerImpl and RuntimeImpl as constructed: breakpointMap is a function
\* from fingerprint keys to breakpoint records
InitAg ==
    [debuggerEnabled |-> FALSE,
     runtimeEnabled |-> FALSE,
     shouldSkipAllPauses |-> FALSE,
     scriptMap |-> {},
     breakpointMap |-> <<>>]

\* the engine: scripts compiled, breakpoints set (id, script, line, column)
InitEng ==
    [asyncBreakRequested |-> FALSE,
     events |-> 0,
     hostCalls |-> 0,
     crashed |-> FALSE,
     eventBudget |-> MaxEvents,
     hostBudget |-> MaxHostCalls,
     scripts |-> {},
     breakpoints |-> {},
     nextBreakpointId |-> 1]

InitG ==
    [budget |-> MaxCalls,
     nextId |-> 1,
     calls |-> 0,
     okCalls |-> <<>>,
     failed |-> {},
     dispatched |-> <<>>,
     eventMissed |-> FALSE,
     loudIgnored |-> FALSE,
     waitRet |-> {},
     pumpExits |-> {},
     offThread |-> FALSE,
     unguarded |-> {},
     use |-> {},
     parsed |-> [s \in Scripts |-> 0],
     afterDisable |-> {},
     sinceSet |-> {},
     setAgain |-> {},
     unmatchedSet |-> {},
     invalidSet |-> {},
     removed |-> {},
     breaks |-> {},
     sideEffect |-> {},
     resolvedNotes |-> {}, accepted |-> {}, routed |-> {}, invoked |-> {}, crossed |-> {},
     lastNote |-> "resumed", misordered |-> {}, asked |-> FALSE,
     completions |-> {},
     holder |-> NoThread, underLock |-> {}, relocked |-> {}, notified |-> FALSE,
     frames |-> {}]

\* ------------------------------------------------- ProtocolHandler, Debugger
\* std::unique_lock<std::mutex> lock(m_lock) by the thread th: a thread that
\* holds the mutex and locks it again never returns, which is recorded with
\* the operation. (A block under the lock is one step, so no other thread
\* holds the mutex when th gets here.)
Lock(w, th) ==
    IF w.g.holder = th THEN [w EXCEPT !.g.relocked = @ \cup {w.op}]
    ELSE [w EXCEPT !.g.holder = th]

\* a block that ends with the mutex still held
StillLocked(w) == w

\* the end of the block: ~unique_lock
Unlock(w) == [w EXCEPT !.g.holder = NoThread]

\* what is done while the mutex is held is recorded
WhileHeld(w, what) ==
    IF w.g.holder # NoThread THEN [w EXCEPT !.g.underLock = @ \cup {what}] ELSE w

\* the host's callback what is invoked by the thread th: a callback that
\* re-enters SendCommand or SendRequest locks the mutex on th
CallbackInvoked(w, th, what) ==
    Unlock(Lock(WhileHeld([w EXCEPT !.g.notified = TRUE], what), th))

\* ProtocolHandler::EnqueueCommand: append and notify_all (the waiting drain
\* loop is woken: its guard reads the queue)
EnqueueCommand(w, th, type, msg) ==
    Touch([w EXCEPT !.ph.commandQueue = Append(@, Entry(w.g.nextId, type, msg, Connection(w))),
                    !.g.nextId = @ + 1],
          th, "queue")

\* a break requested through a call that belongs to the engine thread
BreakThroughEngineApi(w, th) ==
    Touch([w EXCEPT !.eng.asyncBreakRequested = TRUE], th, "engineApi")

\* Debugger::RequestAsyncBreak: JsDiagRequestAsyncBreak
RequestAsyncBreak(w, th) ==
    Touch(WhileHeld([w EXCEPT !.eng.asyncBreakRequested = TRUE], "requestAsyncBreak"),
          th, "requestAsyncBreak")

\* Debugger::PauseOnNextStatement; that it was called during a pause is
\* recorded until the pause ends
PauseOnNextStatement(w) ==
    RequestAsyncBreak([w EXCEPT !.dbg.shouldPauseOnNextStatement = TRUE,
                                !.g.asked = @ \/ w.dbg.isPaused],
                      EngineThread)

\* a Continue that leaves the startup state as it finds it
ContinueKeepsState(w) ==
    Unguarded([w EXCEPT !.ph.waitingForDebugger = FALSE], "startupState")

\* ProtocolHandler::Continue: no lock is taken
Continue(w) ==
    Unguarded([w EXCEPT !.ph.waitingForDebugger = FALSE,
                        !.ph.startupState = "Running"],
              "startupState")

\* a RunIfWaitingForDebugger that schedules no pause
RunWithoutPause(w) == [Unguarded(w, "startupState") EXCEPT !.ph.waitingForDebugger = FALSE]

\* ProtocolHandler::RunIfWaitingForDebugger: no lock is taken
RunIfWaitingForDebugger(w) ==
    LET w1 == Unguarded(w, "startupState")
        w2 == IF w1.ph.startupState = "Pause" THEN PauseOnNextStatement(w1) ELSE w1
    IN [w2 EXCEPT !.ph.waitingForDebugger = FALSE]

\* ProtocolHandler::SendResponse (reached from sendProtocolResponse and
\* sendProtocolNotification): reads both callback slots, no lock is taken
SendResponse(w) ==
    WhileHeld(Unguarded(Unguarded(w, "sendResponseCallback"), "sendResponseCallbackState"),
              "sendResponseCallback")

\* of the notifications paused and resumed, the last one sent is kept, and
\* one that follows another of its own kind is recorded
Noted(w, n) ==
    IF n \in {"paused", "resumed"}
    THEN [w EXCEPT !.g.lastNote = n,
                   !.g.misordered = IF w.g.lastNote = n THEN @ \cup {n} ELSE @]
    ELSE w

\* a notification goes to the frontend (FrontendChannel::sendProtocolNotification)
Emit(w, n) == SendResponse(Noted([w EXCEPT !.out = @ \cup {n}], n))

\* a call of the engine's API; what was called is kept for the caller
EngineCall(w, fn) == [w EXCEPT !.api = @ \cup {fn}]

\* Debugger::Continue
DebuggerContinue(w) == Continue(w)

\* Debugger::Go
DebuggerGo(w) == Continue([w EXCEPT !.dbg.shouldPauseOnNextStatement = FALSE])

\* Debugger::StepIn / StepOut / StepOver: JsDiagSetStepType, where "not at
\* break" is ignored, then Continue
DebuggerStep(w) == DebuggerContinue(Touch(w, EngineThread, "engineApi"))

\* Debugger::Enable
DebuggerEnable(w) == [w EXCEPT !.dbg.isEnabled = TRUE]

\* Debugger::ClearBreakpoints: every breakpoint the engine lists is removed
ClearBreakpoints(w) == [EngineCall(w, "JsDiagRemoveBreakpoint") EXCEPT !.eng.breakpoints = {}]

\* Debugger::Disable, with ClearBreakpoints
DebuggerDisable(w) ==
    IF ~w.dbg.isEnabled THEN w
    ELSE ClearBreakpoints([w EXCEPT !.dbg.isEnabled = FALSE])

\* Debugger::SetSourceEventHandler, SetBreakEventHandler, SetResumeEventHandler
SetEventHandlers(w, on) ==
    [w EXCEPT !.dbg.sourceEventCallback = on,
              !.dbg.breakEventCallback = on,
              !.dbg.resumeEventCallback = on]

\* ------------------------------------------------------------ domain agents
\* the DebuggerBreakpoint a setBreakpointByUrl request constructs: not loaded
\* into a script, not set in the engine
DebuggerBreakpoint(query, type, lineNumber, columnNumber, condition) ==
    [query |-> query, type |-> type, lineNumber |-> lineNumber,
     columnNumber |-> columnNumber, condition |-> condition,
     scriptId |-> NoScript, actualId |-> NoBreakpoint,
     actualLine |-> NoBreakpoint, actualColumn |-> NoBreakpoint]

\* DebuggerBreakpoint::GenerateKey: the fingerprint of the requested breakpoint
GenerateKey(bp) == <<bp.type, bp.query, bp.lineNumber, bp.columnNumber, bp.condition>>

\* the regular expressions the frontend sends: ".*" or a literal url
RegexMatches(regex, url) == regex = ".*" \/ regex = url

\* DebuggerBreakpoint::TryLoadScript: whether the script's url matches the query
TryLoadScript(bp, s) ==
    IF bp.type = "Url" THEN bp.query = SourceUrl(s) ELSE RegexMatches(bp.query, SourceUrl(s))

\* DebuggerBreakpoint::OnScriptLoaded, done by TryLoadScript on a match
OnScriptLoaded(bp, s) == [bp EXCEPT !.scriptId = s]

\* DebuggerBreakpoint::IsResolved
IsResolved(bp) == bp.actualId >= 0

\* the location the engine chooses for a requested one: that of the statement
\* there, which begins at the line's first column in a.js and further right
\* in the other scripts
StatementAt(s, line, column) == [line |-> line, column |-> column + (s - 1)]

\* what the engine answers for the breakpoint b: its id and its location
Accepted(w, b) ==
    [w |-> [w EXCEPT !.g.accepted = @ \cup {b}],
     id |-> b.id, line |-> b.line, column |-> b.column]

\* JsDiagSetBreakpoint: the engine keeps one breakpoint for a location and
\* answers with that one when it is asked for the location again
JsDiagSetBreakpoint(w, s, line, column) ==
    LET w1 == EngineCall(w, "JsDiagSetBreakpoint")
        at == {b \in w.eng.breakpoints :
                  b.script = s /\ [line |-> b.line, column |-> b.column] = StatementAt(s, line, column)}
    IN IF at # {}
       THEN Accepted(w1, CHOOSE b \in at : TRUE)
       ELSE Accepted([w1 EXCEPT !.eng.breakpoints =
                          @ \cup {[id |-> w.eng.nextBreakpointId, script |-> s,
                                    line |-> StatementAt(s, line, column).line,
                                    column |-> StatementAt(s, line, column).column]},
                                !.eng.nextBreakpointId = @ + 1],
                     [id |-> w.eng.nextBreakpointId, script |-> s,
                      line |-> StatementAt(s, line, column).line,
                      column |-> StatementAt(s, line, column).column])

\* DebuggerBreakpoint::OnBreakpointResolved(id, line, column)
OnBreakpointResolved(w, bp, id, line, column) ==
    [w |-> w, bp |-> [bp EXCEPT !.actualId = id, !.actualLine = line, !.actualColumn = column]]

\* the breakpoint r that the engine returned, read into the record
ReadInto(r, bp) == OnBreakpointResolved(r.w, bp, r.id, r.line, r.column)

\* the requested location taken for the engine's
SetAsRequested(w, bp) ==
    ReadInto([JsDiagSetBreakpoint(w, bp.scriptId, bp.lineNumber, bp.columnNumber) EXCEPT
                 !.line = bp.lineNumber, !.column = bp.columnNumber], bp)

\* Debugger::SetBreakpoint
DebuggerSetBreakpoint(w, bp) ==
    ReadInto(JsDiagSetBreakpoint(w, bp.scriptId, bp.lineNumber, bp.columnNumber), bp)

\* Debugger::RemoveBreakpoint: JsDiagRemoveBreakpoint(actualId), its result
\* not looked at
DebuggerRemoveBreakpoint(w, bp) ==
    [EngineCall(w, "JsDiagRemoveBreakpoint") EXCEPT
        !.eng.breakpoints = {b \in @ : b.id # bp.actualId}]

\* DebuggerImpl::TryResolveBreakpoint on a breakpoint loaded into a script
TryResolveBreakpoint(w, bp) == DebuggerSetBreakpoint(w, bp)

\* DebuggerImpl::ActualBreakpointExists
ActualBreakpointExists(w, bp) ==
    \E k \in DOMAIN w.ag.breakpointMap :
        LET it == w.ag.breakpointMap[k]
        IN IF bp.actualId >= 0
           THEN it.actualId = bp.actualId
           ELSE /\ it.scriptId = bp.scriptId
                /\ it.lineNumber = bp.lineNumber
                /\ it.columnNumber = bp.columnNumber

\* m_breakpointMap.emplace(key, bp), and the update of a record in place
Emplace(map, key, bp) == [k \in DOMAIN map \cup {key} |-> IF k = key THEN bp ELSE map[k]]

\* m_breakpointMap.erase(key)
Erase(map, key) == [k \in DOMAIN map \ {key} |-> map[k]]

\* m_frontend.scriptParsed / scriptFailedToParse for script s; the count of
\* the notifications for s stops at 2
ScriptParsed(w, s) ==
    Emit([w EXCEPT !.g.parsed[s] = IF @ < 2 THEN @ + 1 ELSE @], "scriptParsed")

\* a breakpointResolved notification is about to be sent for the record k,
\* loaded into script s: whether the record was resolved before, whether the
\* script has been announced and is in the script map
ResolvedNote(w, k, s) ==
    [again |-> IsResolved(w.ag.breakpointMap[k]),
     parsed |-> w.g.parsed[s] > 0,
     inMap |-> s \in w.ag.scriptMap]

\* the body of the loop of DebuggerImpl::HandleSourceEvent once the record k
\* has matched the script: t is what TryResolveBreakpoint left, the record is
\* updated in place and m_frontend.breakpointResolved sent if it is resolved
BreakpointResolved(t, k) ==
    IF IsResolved(t.bp)
    THEN Emit([t.w EXCEPT !.ag.breakpointMap = Emplace(@, k, t.bp),
                          !.g.resolvedNotes = @ \cup {ResolvedNote(t.w, k, t.bp.scriptId)}],
              "breakpointResolved")
    ELSE [t.w EXCEPT !.ag.breakpointMap = Emplace(@, k, t.bp)]

\* the body of the loop for the record k
ResolveOne(w, s, k) ==
    IF TryLoadScript(w.ag.breakpointMap[k], s)
    THEN BreakpointResolved(TryResolveBreakpoint(w, OnScriptLoaded(w.ag.breakpointMap[k], s)), k)
    ELSE w

\* the loop of DebuggerImpl::HandleSourceEvent over m_breakpointMap
RECURSIVE ResolvePending(_, _, _)
ResolvePending(w, s, keys) ==
    IF keys = {} THEN w
    ELSE LET k == CHOOSE x \in keys : TRUE
         IN ResolvePending(ResolveOne(w, s, k), s, keys \ {k})

\* DebuggerImpl::HandleSourceEvent
DebuggerImplHandleSourceEvent(w, s) ==
    ResolvePending([ScriptParsed(w, s) EXCEPT !.ag.scriptMap = @ \cup {s}],
                   s, DOMAIN w.ag.breakpointMap)

\* the loop of DebuggerImpl::enable over Debugger::GetScripts
RECURSIVE ReplayScripts(_, _)
ReplayScripts(w, scripts) ==
    IF scripts = {} THEN w
    ELSE LET s == CHOOSE x \in scripts : \A y \in scripts : x <= y
         IN ReplayScripts(DebuggerImplHandleSourceEvent(w, s), scripts \ {s})

\* DebuggerImpl::enable: a new enabled period starts with no notification sent
DebuggerImplEnable(w) ==
    IF w.ag.debuggerEnabled THEN w
    ELSE ReplayScripts(
            EngineCall(SetEventHandlers(DebuggerEnable(
                          [w EXCEPT !.ag.debuggerEnabled = TRUE,
                                    !.g.parsed = [s \in Scripts |-> 0]]), TRUE),
                       "JsDiagGetScripts"),
            w.eng.scripts)

\* DebuggerImpl::disable, also run by ~DebuggerImpl
DebuggerImplDisable(w) ==
    IF ~w.ag.debuggerEnabled THEN w
    ELSE LET w1 == SetEventHandlers(DebuggerDisable([w EXCEPT !.ag.debuggerEnabled = FALSE]), FALSE)
         IN [w1 EXCEPT !.ag.breakpointMap = <<>>,
                       !.ag.scriptMap = {},
                       !.ag.shouldSkipAllPauses = FALSE]

\* ProtocolHelpers::ParseObjectId on an id that is not a JSON object
ParseObjectIdBad(w) == Throw(w)

\* The result of one agent entry point: the world after it and what the
\* frontend gets: "ok", "error" (Response::Error)
Answer(w, out) == [w |-> w, out |-> out]

\* the result of setBreakpointByUrl: the response, with out_breakpointId (None
\* if it was not set) and the number of out_locations
SetResult(w, out, id, locations) ==
    [w |-> w, out |-> out, breakpointId |-> id, locations |-> locations]

\* the body of that loop after TryResolveBreakpoint, which left t: a resolved
\* breakpoint adds a location to out_locations
LocationAdded(t, locations) ==
    [w |-> t.w, bp |-> t.bp,
     locations |-> IF IsResolved(t.bp) THEN locations + 1 ELSE locations]

\* the loop of DebuggerImpl::setBreakpointByUrl over m_scriptMap; r holds the
\* world, the breakpoint and the number of locations added
RECURSIVE ResolveOnScripts(_, _)
ResolveOnScripts(r, scripts) ==
    IF scripts = {} THEN r
    ELSE LET s == CHOOSE x \in scripts : \A y \in scripts : x <= y
         IN IF TryLoadScript(r.bp, s)
            THEN ResolveOnScripts(
                    LocationAdded(TryResolveBreakpoint(r.w, OnScriptLoaded(r.bp, s)), r.locations),
                    scripts \ {s})
            ELSE ResolveOnScripts(r, scripts \ {s})

\* the test of DebuggerImpl::setBreakpointByUrl: url, else urlRegex, else fail
UrlGiven(p) == p.url # None \/ p.urlRegex # None

\* columnNumber < 0 fails
ColumnValid(p) == p.columnNumber >= 0

\* m_breakpointMap.find(breakpointId) != m_breakpointMap.end()
Registered(w, key) == key \in DOMAIN w.ag.breakpointMap

\* the end of DebuggerImpl::setBreakpointByUrl, r being what the loop over the
\* scripts left: the breakpoint is stored and its id returned unless
\* ActualBreakpointExists
StoreBreakpoint(r, breakpointId) ==
    IF ~ActualBreakpointExists(r.w, r.bp)
    THEN SetResult([r.w EXCEPT !.ag.breakpointMap = Emplace(@, breakpointId, r.bp)],
                   "ok", breakpointId, r.locations)
    ELSE SetResult(r.w, "ok", None, r.locations)

\* DebuggerImpl::setBreakpointByUrl
DebuggerImplSetBreakpointByUrl(w, p) ==
    IF ~UrlGiven(p) THEN SetResult(w, "UrlRequired", None, 0)
    ELSE IF ~ColumnValid(p) THEN SetResult(w, "InvalidColumnNumber", None, 0)
    ELSE LET type == IF p.url # None THEN "Url" ELSE "UrlRegex"
             url == IF p.url # None THEN p.url ELSE p.urlRegex
             breakpoint == DebuggerBreakpoint(url, type, p.lineNumber, p.columnNumber, p.condition)
             breakpointId == GenerateKey(breakpoint)
         IN IF Registered(w, breakpointId) THEN SetResult(w, "BreakpointExists", None, 0)
            ELSE StoreBreakpoint(ResolveOnScripts([w |-> w, bp |-> breakpoint, locations |-> 0],
                                                  w.ag.scriptMap),
                                 breakpointId)

\* a removal that leaves the engine's breakpoint set
RemoveRecordOnly(w, id) ==
    IF Registered(w, id)
    THEN Answer([w EXCEPT !.ag.breakpointMap = Erase(@, id)], "ok")
    ELSE Answer(w, "BreakpointNotFound")

\* DebuggerImpl::removeBreakpoint
DebuggerImplRemoveBreakpoint(w, id) ==
    IF Registered(w, id)
    THEN LET w1 == DebuggerRemoveBreakpoint(w, w.ag.breakpointMap[id])
         IN Answer([w1 EXCEPT !.ag.breakpointMap = Erase(@, id)], "ok")
    ELSE Answer(w, "BreakpointNotFound")

\* DebuggerImpl::resume
DebuggerImplResume(w) ==
    IF ~w.ag.debuggerEnabled THEN Answer(w, "error")
    ELSE Answer(DebuggerContinue(w), "ok")

\* DebuggerImpl::stepOver / stepInto / stepOut
DebuggerImplStep(w) == Answer(DebuggerStep(w), "ok")

\* DebuggerImpl::evaluateOnCallFrame with an unparsable callFrameId: nothing
\* catches what ParseObjectId throws
DebuggerImplEvaluateOnCallFrameBad(w) == Answer(ParseObjectIdBad(w), "threw")

\* PropertyHelpers::GetIndexedProperty on the stack trace, an array of trace
\* frames: the frame at the index, or undefined where the array has no element
GetIndexedProperty(trace, index) == IF index \in 0..(trace - 1) THEN index ELSE Undefined

\* Debugger::GetCallFrame. trace is the number of frames of the engine's stack
\* trace; it is 0 when the engine is not at a break, where JsDiagGetStackTrace
\* fails and IfJsErrorThrow throws
GetCallFrame(ordinal, trace) ==
    IF trace = 0 THEN [error |-> "JsError", frame |-> Undefined]
    ELSE IF ordinal >= trace THEN [error |-> "InvalidOrdinal", frame |-> Undefined]
    ELSE [error |-> "", frame |-> GetIndexedProperty(trace, ordinal)]

\* DebuggerCallFrame::Evaluate: JsDiagEvaluate in the frame; a frame built on
\* undefined has no index to evaluate in and the read of it throws
CallFrameEvaluate(w, frame) ==
    IF frame = Undefined THEN Answer(Throw(w), "threw")
    ELSE Answer(EngineCall(Touch(w, EngineThread, "engineApi"), "JsDiagEvaluate"), "ok")

\* DebuggerImpl::evaluateOnCallFrame after GetCallFrame, which gave r: nothing
\* catches what GetCallFrame throws. What GetCallFrame was asked and gave at a
\* break is kept.
CallFrameGot(w, ordinal, trace, r) ==
    IF r.error # ""
    THEN Answer(Throw(IF trace = 0 THEN w
                      ELSE [w EXCEPT !.g.frames = @ \cup
                              {[ordinal |-> ordinal, trace |-> trace,
                                error |-> r.error, frame |-> r.frame]}]),
                "threw")
    ELSE CallFrameEvaluate([w EXCEPT !.g.frames = @ \cup
                               {[ordinal |-> ordinal, trace |-> trace,
                                 error |-> r.error, frame |-> r.frame]}],
                           r.frame)

\* DebuggerImpl::evaluateOnCallFrame with a callFrameId that holds an ordinal
DebuggerImplEvaluateOnCallFrame(w, ordinal, trace) ==
    CallFrameGot(w, ordinal, trace, GetCallFrame(ordinal, trace))

\* RuntimeImpl::enable
RuntimeImplEnable(w) ==
    IF w.ag.runtimeEnabled THEN Answer(w, "ok")
    ELSE Answer(SendResponse([w EXCEPT !.ag.runtimeEnabled = TRUE]), "ok")

\* RuntimeImpl::runIfWaitingForDebugger
RuntimeImplRunIfWaitingForDebugger(w) ==
    IF ~w.ag.runtimeEnabled THEN Answer(w, "error")
    ELSE Answer(RunIfWaitingForDebugger(w), "ok")

\* what RuntimeImpl::evaluate leaves: the world, and what the callback was
\* given: sendSuccess(result, exception text) or sendFailure(text), or nothing
\* yet ("pending") while the engine evaluates
EvaluateResult(w, out, reply, result, text) ==
    [w |-> w, out |-> out, reply |-> reply, result |-> result, text |-> text]

\* EvaluateCallback::sendSuccess and sendFailure: the response goes out
SendSuccess(w, result, text) == EvaluateResult(SendResponse(w), "ok", "success", result, text)
SendFailure(w, text) == EvaluateResult(SendResponse(w), "error", "failure", "-", text)

\* the lambda ErrorResult of RuntimeImpl::evaluate
ErrorResult(w, silent, msg) ==
    IF silent THEN SendSuccess(w, "error", msg) ELSE SendFailure(w, msg)

\* the evaluation proper: JsPointerToString, JsDiagEvaluate and, not at a
\* break, JsRunScript; the callback is completed when the engine is done
Evaluation(w) ==
    EvaluateResult(EngineCall(Touch(w, EngineThread, "engineApi"), "JsDiagEvaluate"),
                   "ok", "pending", "-", "")

\* an evaluate that looks at awaitPromise before throwOnSideEffect
AwaitPromiseFirst(w, p) ==
    IF p.awaitPromise THEN ErrorResult(w, p.silent, "Not implemented")
    ELSE IF p.throwOnSideEffect
    THEN SendSuccess(w, "undefined", "Possible side effects of expression evaluation")
    ELSE Evaluation(w)

\* RuntimeImpl::evaluate up to its engine call
RuntimeImplEvaluate(w, p) ==
    IF p.throwOnSideEffect
    THEN SendSuccess(w, "undefined", "Possible side effects of expression evaluation")
    ELSE IF p.awaitPromise THEN ErrorResult(w, p.silent, "Not implemented")
    ELSE Evaluation(w)

\* what a dispatched Runtime.evaluate with throwOnSideEffect did, a being its
\* result: the engine calls made, whether the engine is as it was, the reply
SideEffectObserved(w, p, a) ==
    Answer(IF p.throwOnSideEffect
           THEN [a.w EXCEPT !.g.sideEffect = @ \cup
                    {[awaitPromise |-> p.awaitPromise, silent |-> p.silent,
                      api |-> a.w.api, engine |-> a.w.eng = w.eng,
                      reply |-> a.reply, result |-> a.result, text |-> a.text]}]
           ELSE a.w,
           a.out)

\* the path a Runtime.evaluate took through RuntimeImpl::evaluate
EvaluatePath(p, atBreak) ==
    IF p.throwOnSideEffect THEN "throwOnSideEffect"
    ELSE IF p.awaitPromise THEN "awaitPromise"
    ELSE IF atBreak THEN "paused" ELSE "global"

\* RuntimeImpl::evaluate is over, a being what it left: how often it
\* completed its callback is recorded
EvaluateOver(a, p, atBreak) ==
    [a EXCEPT !.w.g.completions = @ \cup
        {[path |-> EvaluatePath(p, atBreak), silent |-> p.silent,
          expression |-> p.expression,
          completions |-> IF a.reply \in {"success", "failure"} THEN 1 ELSE 0]}]

\* ProtocolHelpers::WrapValue: JsError, JsSymbol, JsArrayBuffer, JsTypedArray
\* and JsDataView values throw std::runtime_error
WrapValue(w, expression) == IF expression = "Symbol()" THEN Throw(w) ELSE w

\* RuntimeImpl::evaluate after its engine call: at a break JsDiagEvaluate gave
\* the result, which WrapObject wraps; not at a break JsRunScript gave the
\* value, which WrapValue wraps. The wrapper is an argument of sendSuccess: an
\* exception of the wrapper leaves evaluate before sendSuccess is called
Evaluated(w, p, atBreak) ==
    IF atBreak THEN SendSuccess(w, "object", "")
    ELSE IF WrapValue(w, p.expression).exc
    THEN EvaluateResult(WrapValue(w, p.expression), "threw", "pending", "-", "")
    ELSE SendSuccess(WrapValue(w, p.expression), "value", "")

\* the paths of RuntimeImpl::evaluate that do not call the engine are over
\* when the dispatch is
Returned(a, p) == IF a.reply = "pending" THEN a ELSE EvaluateOver(a, p, FALSE)

\* Runtime.evaluate as dispatched
DispatchEvaluate(w, m) ==
    SideEffectObserved(w, EvaluateParams(m),
                       Returned(RuntimeImplEvaluate(w, EvaluateParams(m)), EvaluateParams(m)))

\* what a dispatched Debugger.disable, or the agents' teardown, leaves behind
LeftByDisable(w, how) ==
    [w EXCEPT !.g.afterDisable = @ \cup
        {[how |-> how,
          scripts |-> w.ag.scriptMap # {},
          breakpoints |-> DOMAIN w.ag.breakpointMap # {},
          skipAllPauses |-> w.ag.shouldSkipAllPauses,
          handlers |-> w.dbg.sourceEventCallback \/ w.dbg.breakEventCallback
                          \/ w.dbg.resumeEventCallback]},
              !.g.sinceSet = {}]

\* Debugger.disable as dispatched
DispatchDisable(w) == Answer(LeftByDisable(DebuggerImplDisable(w), "disable"), "ok")

\* the breakpoints of the agent and of the engine
Breakpoints(w) == <<w.ag.breakpointMap, w.eng.breakpoints>>

\* what a dispatched Debugger.setBreakpointByUrl found and what it got, a being
\* its result: a repeated request, a request no script matches, a request
\* that is to be refused
SetObserved(w, m, p, a) ==
    LET urls == (IF p.url # None THEN 1 ELSE 0) + (IF p.urlRegex # None THEN 1 ELSE 0)
        valid == urls = 1 /\ p.columnNumber >= 0
        bp == DebuggerBreakpoint(IF p.url # None THEN p.url ELSE p.urlRegex,
                                 IF p.url # None THEN "Url" ELSE "UrlRegex",
                                 p.lineNumber, p.columnNumber, p.condition)
        unmatched == /\ valid
                     /\ a.out = "ok"
                     /\ ~Registered(w, GenerateKey(bp))
                     /\ \A s \in w.ag.scriptMap : ~TryLoadScript(bp, s)
    IN Answer([a.w EXCEPT
          !.g.setAgain = IF valid /\ m \in w.g.sinceSet THEN @ \cup {a.out} ELSE @,
          !.g.sinceSet = IF valid THEN @ \cup {m} ELSE @,
          !.g.unmatchedSet =
              IF unmatched
              THEN @ \cup {[breakpointId |-> a.breakpointId # None,
                            locations |-> a.locations,
                            stored |-> Registered(a.w, GenerateKey(bp))]}
              ELSE @,
          !.g.invalidSet =
              IF ~valid
              THEN @ \cup {[urls |-> urls, columnNumber |-> p.columnNumber, out |-> a.out,
                            same |-> Breakpoints(a.w) = Breakpoints(w)]}
              ELSE @],
          a.out)

\* Debugger.setBreakpointByUrl as dispatched
DispatchSetBreakpointByUrl(w, m) ==
    SetObserved(w, m, SetBreakpointParams(m),
                DebuggerImplSetBreakpointByUrl(w, SetBreakpointParams(m)))

\* what a dispatched Debugger.removeBreakpoint found and left, a being its result
RemoveObserved(w, id, a) ==
    Answer([a.w EXCEPT
        !.g.removed = @ \cup
            {[present |-> Registered(w, id),
              resolved |-> Registered(w, id) /\ IsResolved(w.ag.breakpointMap[id]),
              out |-> a.out,
              recordGone |-> ~Registered(a.w, id),
              others |-> \A k \in DOMAIN w.ag.breakpointMap \ {id} :
                            Registered(a.w, k) /\ a.w.ag.breakpointMap[k] = w.ag.breakpointMap[k],
              engineGone |-> \A b \in a.w.eng.breakpoints :
                                Registered(w, id) => b.id # w.ag.breakpointMap[id].actualId,
              same |-> Breakpoints(a.w) = Breakpoints(w)]},
        !.g.sinceSet = {}],
        a.out)

\* Debugger.removeBreakpoint as dispatched
DispatchRemoveBreakpoint(w, m) ==
    RemoveObserved(w, RemoveBreakpointId(m),
                   DebuggerImplRemoveBreakpoint(w, RemoveBreakpointId(m)))

\* the agent's response a goes to the frontend
Respond(a, m) ==
    IF a.w.exc \/ m \in Evaluations THEN a
    ELSE Answer(SendResponse(Touch(a.w, EngineThread, "agent")), a.out)

\* UberDispatcher::dispatch: route the parsed message to the wired agent, then
\* send the response
DispatchMessage(w, m, trace) ==
    Respond(CASE m = "Debugger.enable" -> Answer(DebuggerImplEnable(w), "ok")
               [] m = "Debugger.disable" -> DispatchDisable(w)
               [] m \in SetBreakpointRequests -> DispatchSetBreakpointByUrl(w, m)
               [] m \in RemoveBreakpointRequests -> DispatchRemoveBreakpoint(w, m)
               [] m = "Debugger.resume" -> DebuggerImplResume(w)
               [] m \in StepMethods -> DebuggerImplStep(w)
               [] m = "Runtime.enable" -> RuntimeImplEnable(w)
               [] m = "Runtime.runIfWaitingForDebugger" -> RuntimeImplRunIfWaitingForDebugger(w)
               [] m \in Evaluations -> DispatchEvaluate(w, m)
               [] m \in CallFrameRequests ->
                      DebuggerImplEvaluateOnCallFrame(w, CallFrameOrdinal(m), trace)
               [] m = BadRequest -> DebuggerImplEvaluateOnCallFrameBad(w)
               [] OTHER -> Answer(w, "error"),
            m)

\* The dispatcher's own answers: text that is not JSON, or a method of a domain
\* that no agent was ever wired for, gets an error response
DispatcherRejects(w) == Answer(SendResponse(w), "error")

Crash(w) == [w EXCEPT !.eng.crashed = TRUE]

\* the dispatcher calls the agent wired for the message's domain: whether a
\* frontend is connected and the agents exist at that moment is recorded
Routed(w) ==
    [w EXCEPT !.g.routed = @ \cup {[connected |-> w.ph.isConnected, agents |-> w.ph.agents]}]

\* ProtocolHandler::HandleMessageReceived. After HandleDisconnect the
\* dispatcher still holds the destroyed agents: a call through it either runs
\* on the dead object's last fields or brings the process down (stale).
HandleMessageReceived(w, m, stale, trace) ==
    IF m = NotJson \/ ~w.ph.wired THEN DispatcherRejects(w)
    ELSE IF ~w.ph.agents /\ stale = "crash" THEN Answer(Crash(Routed(w)), "none")
    ELSE DispatchMessage(Routed(w), m, trace)

\* ProtocolHandler::HandleHostRequest
HandleHostRequest(w, r) ==
    CASE r = "Debugger.go" -> DebuggerGo(w)
      [] r = "Debugger.deferredGo" -> [w EXCEPT !.ph.deferredGo = TRUE]
      [] r = "Debugger.stepInto" -> DebuggerStep(w)
      [] OTHER -> w

\* ProtocolHandler::HandleConnect
HandleConnect(w) ==
    IF w.ph.isConnected THEN Throw(w)
    ELSE LET w1 == [w EXCEPT !.ph.agents = TRUE, !.ph.wired = TRUE, !.ag = InitAg]
         IN [PauseOnNextStatement(w1) EXCEPT !.ph.isConnected = TRUE]

\* ~DebuggerImpl: disable(), then the members are destroyed
DestroyDebuggerImpl(w) ==
    [DebuggerImplDisable(w) EXCEPT !.ag.breakpointMap = <<>>, !.ag.scriptMap = {}]

\* ProtocolHandler::HandleDisconnect: resetting m_debuggerAgent runs
\* ~DebuggerImpl
HandleDisconnect(w) ==
    IF ~w.ph.isConnected THEN Throw(w)
    ELSE LET w1 == [LeftByDisable(DestroyDebuggerImpl(w), "teardown") EXCEPT !.ph.agents = FALSE]
         IN [RunIfWaitingForDebugger(w1) EXCEPT !.ph.isConnected = FALSE]

\* the switch of ProtocolHandler::ProcessCommandQueue on one entry
DispatchEntry(w, e, stale, trace) ==
    LET v == WhileHeld(w, "dispatch")
    IN CASE e.type = "Connect" -> Answer(HandleConnect(v), "none")
         [] e.type = "Disconnect" -> Answer(HandleDisconnect(v), "none")
         [] e.type = "MessageReceived" -> HandleMessageReceived(v, e.msg, stale, trace)
         [] e.type = "HostRequest" -> Answer(HandleHostRequest(v, e.msg), "none")

\* the message e got its response through the callback installed now
Answered(a, e) ==
    /\ e.type = "MessageReceived"
    /\ ~a.w.exc
    /\ a.out \in {"ok", "error"}
    /\ a.w.ph.sendResponseCallback # NoCallback

\* the entry's dispatch is recorded with what became of it, and a response
\* to a message sent in one connection that went to another one
Logged(a, e) ==
    [a.w EXCEPT !.g.dispatched =
                    Append(@, [id |-> e.id, out |-> IF a.w.exc THEN "threw" ELSE a.out]),
                !.g.crossed =
                    IF Answered(a, e) /\ e.conn # 0 /\ e.conn # Connection(a.w)
                    THEN @ \cup {[sent |-> e.conn, answered |-> Connection(a.w)]}
                    ELSE @]

\* ProtocolHandler::ProcessDeferredGo, with SendRequest("Debugger.go")
ProcessDeferredGo(w) ==
    IF w.ph.deferredGo
    THEN RequestAsyncBreak(
            Unlock(EnqueueCommand(Lock([w EXCEPT !.ph.deferredGo = FALSE], EngineThread),
                                  EngineThread, "HostRequest", "Debugger.go")),
            EngineThread)
    ELSE w

\* DebuggerImpl::HandleResumeEvent through the Core's resume callback
ResumeEvent(w) == IF w.dbg.resumeEventCallback THEN Emit(w, "resumed") ELSE w

\* ------------------------------------------------------------- call stacks
Top(s) == s[Len(s)]
Pop(s) == SubSeq(s, 1, Len(s) - 1)
SetTop(s, f) == [s EXCEPT ![Len(s)] = f]
Push(s, f) == Append(s, f)

OnTop(d, fn, pc) ==
    /\ ~eng.crashed
    /\ stack[d] # <<>>
    /\ Top(stack[d]).fn = fn
    /\ Top(stack[d]).pc = pc

Idle(d) == ~eng.crashed /\ stack[d] = <<>>

\* a guard that stops no call
NeverHit(w) == FALSE

\* the first statement of ProcessCommandQueue: "don't enter recursively"
GuardHit(w) == w.ph.processingCommandQueue

\* the drain loop's wait: if (m_waitingForDebugger && m_commandQueue.empty())
MustWait(w) == w.ph.waitingForDebugger /\ w.ph.commandQueue = <<>>

\* the drain loop's condition: while (m_waitingForDebugger || !current.empty())
LoopAgain(w, batch) == w.ph.waitingForDebugger \/ batch # <<>>

\* What the caller of ProcessCommandQueue does next, s being the stack below
\* the returning call: a C entry point returns to the host, HandleDebugEvent
\* goes on to the event, HandleBreak goes on after WaitForDebugger
AfterPCQ(s) ==
    LET c == Top(s)
    IN CASE c.fn \in {"ApiPCQ", "ApiWait"} -> Pop(s)
         [] c.fn = "HDE" /\ c.pc = "pcq" -> SetTop(s, [c EXCEPT !.pc = "handle"])
         [] c.fn = "HDE" /\ c.pc = "wait" -> SetTop(s, [c EXCEPT !.pc = "tail"])

\* ProtocolHandler::WaitForDebugger returns when its ProcessCommandQueue call
\* does; the value of m_waitingForDebugger at that moment is recorded
InWait(s) == Top(s).fn = "ApiWait" \/ (Top(s).fn = "HDE" /\ Top(s).pc = "wait")

WaitReturned(w, s, how) ==
    IF InWait(s)
    THEN [w EXCEPT !.g.waitRet = @ \cup {w.ph.waitingForDebugger},
                   !.g.pumpExits = @ \cup {how}]
    ELSE w

\* WaitForDebugger is left by an exception
WaitUnwound(w, s) == IF InWait(s) THEN [w EXCEPT !.g.pumpExits = @ \cup {"threw"}] ELSE w

\* the ids of the entries dispatched so far
DispatchedIds(w) == {w.g.dispatched[i].id : i \in 1..Len(w.g.dispatched)}

\* the event of frame f is a break event whose handling began while the nested
\* message loop was running
IgnoredBreak(f) ==
    /\ f.pc = "handle"
    /\ f.ev \in BreakEvents \cup {"AsyncBreak"}
    /\ dbg.isEnabled
    /\ dbg.isRunningNestedMessageLoop

\* HandleDebugEvent returns to the engine; f is its frame, whose snap holds the
\* entries whose producer call had returned when the event began; a
\* notification sent for a break event that was to be ignored is recorded
EndEvent(w, f) ==
    [w EXCEPT !.g.eventMissed = @ \/ ~(f.snap \subseteq DispatchedIds(w)),
              !.g.loudIgnored = @ \/ (IgnoredBreak(f) /\ w.out # {})]

PopEvent(d, w) ==
    /\ stack' = [stack EXCEPT ![d] = Pop(@)]
    /\ Commit(EndEvent(w, Top(stack[d])))

\* ProcessCommandQueue returns at its guard
ReturnAtGuard(d, w) ==
    LET s == Pop(stack[d])
    IN /\ stack' = [stack EXCEPT ![d] = AfterPCQ(s)]
       /\ Commit(WaitReturned(w, s, "guard"))

\* ProcessCommandQueue leaves its loop: ~RecurseFlag clears the flag
ExitPCQ(d, w) ==
    LET s == Pop(stack[d])
        w1 == [w EXCEPT !.ph.processingCommandQueue = FALSE]
    IN /\ stack' = [stack EXCEPT ![d] = AfterPCQ(s)]
       /\ Commit(WaitReturned(w1, s, "loop"))

\* An exception leaves ProcessCommandQueue: ~RecurseFlag clears the flag and the
\* local batch is destroyed. A C entry point catches it
\* (TranslateExceptionToJsErrorCode). HandleDebugEvent and HandleBreak catch
\* nothing, so it leaves the engine's callback: the process ends, or the engine
\* unwinds to its caller with the Core's flags as they were.
Unwind(d, w) ==
    LET s == Pop(stack[d])
        w1 == WaitUnwound([w EXCEPT !.ph.processingCommandQueue = FALSE, !.exc = FALSE], s)
    IN IF Top(s).fn \in {"ApiPCQ", "ApiWait"}
       THEN stack' = [stack EXCEPT ![d] = Pop(s)] /\ Commit(w1)
       ELSE \E o \in {"crash", "unwind"} :
                /\ stack' = [stack EXCEPT ![d] = Pop(s)]
                /\ Commit(IF o = "crash" THEN Crash(w1) ELSE EndEvent(w1, Top(s)))

\* the head entry of the batch has been dispatched
AfterEntry(d, w) ==
    LET f == Top(stack[d])
        rest == Tail(f.cur)
    IN IF rest # <<>>
       THEN /\ stack' = [stack EXCEPT ![d] = SetTop(@, [f EXCEPT !.pc = "dispatch", !.cur = rest])]
            /\ Commit(w)
       ELSE IF LoopAgain(w, f.cur)
       THEN /\ stack' = [stack EXCEPT ![d] = SetTop(@, [f EXCEPT !.pc = "lock", !.cur = <<>>])]
            /\ Commit(w)
       ELSE ExitPCQ(d, w)

\* ------------------------------------------- ProcessCommandQueue, by steps
PCQCheck(d) ==
    /\ OnTop(d, "PCQ", "check")
    /\ IF GuardHit(World)
       THEN ReturnAtGuard(d, World)
       ELSE /\ stack' = [stack EXCEPT ![d] = SetTop(@, [Top(@) EXCEPT !.pc = "set"])]
            /\ UNCHANGED <<ph, dbg, ag, eng, g>>
    /\ UNCHANGED tr

\* RecurseFlag's constructor
PCQSet(d) ==
    /\ OnTop(d, "PCQ", "set")
    /\ stack' = [stack EXCEPT ![d] = SetTop(@, [Top(@) EXCEPT !.pc = "lock"])]
    /\ ph' = [ph EXCEPT !.processingCommandQueue = TRUE]
    /\ UNCHANGED <<dbg, ag, eng, g, tr>>

\* the locked block: wait if need be, then swap the queue into current
PCQSwap(d) ==
    /\ OnTop(d, "PCQ", "lock")
    /\ ~MustWait(World)
    /\ LET cur == ph.commandQueue
           w == Unlock([Lock(World, d) EXCEPT !.ph.commandQueue = <<>>])
           f == Top(stack[d])
       IN IF cur # <<>>
          THEN /\ stack' = [stack EXCEPT ![d] = SetTop(@, [f EXCEPT !.pc = "dispatch", !.cur = cur])]
               /\ Commit(w)
          ELSE IF LoopAgain(w, cur)
          THEN UNCHANGED <<ph, dbg, ag, eng, g, stack>>
          ELSE ExitPCQ(d, w)
    /\ UNCHANGED tr

StaleOutcomes(e) ==
    IF e.type = "MessageReceived" /\ e.msg # NotJson /\ ph.wired /\ ~ph.agents
    THEN {"run", "crash"}
    ELSE {"run"}

\* the engine is at a break while it delivers a break event
AtBreak ==
    \E k \in 1..Len(stack[EngineThread]) :
        /\ stack[EngineThread][k].fn = "HDE"
        /\ stack[EngineThread][k].ev \in BreakEvents \cup {"AsyncBreak"}

\* the number of frames JsDiagGetStackTrace gives a request that asks for a
\* call frame: 0 when it fails, the engine not being at a break
StackTraces(e) ==
    IF e.type = "MessageReceived" /\ e.msg \in CallFrameRequests /\ AtBreak
    THEN 1..MaxFrames
    ELSE {0}

\* where the loop goes once the entry e is dispatched, w being the world
\* the dispatch left
EntryDispatched(d, f, e, w) ==
    IF w.eng.crashed THEN Commit(w) /\ UNCHANGED stack
    ELSE IF w.exc THEN Unwind(d, w)
    ELSE IF e.type = "MessageReceived" /\ e.msg \in Evaluations
            /\ "JsDiagEvaluate" \in w.api
    THEN /\ stack' = [stack EXCEPT ![d] = SetTop(@, [f EXCEPT !.pc = "eval"])]
         /\ Commit(w)
    ELSE AfterEntry(d, w)

PCQDispatch(d) ==
    /\ OnTop(d, "PCQ", "dispatch")
    /\ LET f == Top(stack[d])
           e == Head(f.cur)
       IN \E stale \in StaleOutcomes(e), trace \in StackTraces(e) :
            EntryDispatched(d, f, e, Logged(DispatchEntry(World, e, stale, trace), e))
    /\ UNCHANGED tr

\* RuntimeImpl::evaluate after its engine call: the callback is completed and
\* the response sent
EvalFinish(d) ==
    /\ OnTop(d, "PCQ", "eval")
    /\ LET p == EvaluateParams(Head(Top(stack[d]).cur).msg)
           a == EvaluateOver(Evaluated(World, p, AtBreak), p, AtBreak)
       IN IF a.w.exc THEN Unwind(d, a.w) ELSE AfterEntry(d, a.w)
    /\ UNCHANGED tr

\* ------------------------------------------------------ the engine's events
\* JsDiagRequestAsyncBreak makes the engine raise AsyncBreak; it raises the
\* other events on its own, and it takes the request for satisfied by any
\* event it delivers
CanRaise(ev) ==
    /\ eng.events < eng.eventBudget
    /\ ev = "AsyncBreak" => eng.asyncBreakRequested
    /\ ev \in SourceEvents => eng.scripts # Scripts
    /\ ev = "Breakpoint" => eng.breakpoints # {}

\* the script a source event is about: the next one the engine compiles
NextScript == CHOOSE s \in Scripts \ eng.scripts : \A t \in Scripts \ eng.scripts : s <= t

\* the engine lists a script (JsDiagGetScripts) from its compilation on, so
\* already while the script's source event is being delivered
Raised(w, ev) ==
    [w EXCEPT !.eng.events = @ + 1,
              !.eng.asyncBreakRequested = FALSE,
              !.eng.scripts = IF ev \in SourceEvents THEN @ \cup {NextScript} ELSE @]

\* the entries whose producer call has returned: every entry appended, but
\* those of the calls that have yet to request the async break
ReturnedIds == (1..(g.nextId - 1)) \ {tr[t].id : t \in Transports}

\* the data of the event: the script compiled, the breakpoint hit
EventFrame(ev, hit) ==
    [Frame("HDE", "pcq", ev, ReturnedIds) EXCEPT
        !.script = IF ev \in SourceEvents THEN NextScript ELSE NoScript,
        !.hit = hit]

\* the breakpoints an event of kind ev can have hit
HitChoices(ev) ==
    IF ev = "Breakpoint" THEN {b.id : b \in eng.breakpoints} ELSE {NoBreakpoint}

\* the engine calls Debugger::HandleDebugEvent while running the host's script
EngineEvent(d, ev) ==
    /\ Idle(d)
    /\ CanRaise(ev)
    /\ \E hit \in HitChoices(ev) :
          stack' = [stack EXCEPT ![d] = <<EventFrame(ev, hit), Frame("PCQ", "check", ev, {})>>]
    /\ Commit(Raised(World, ev))
    /\ UNCHANGED tr

\* the engine calls Debugger::HandleDebugEvent while running the script that
\* RuntimeImpl::evaluate gave it
NestedEvent(d, ev) ==
    /\ OnTop(d, "PCQ", "eval")
    /\ CanRaise(ev)
    /\ \E hit \in HitChoices(ev) :
          stack' = [stack EXCEPT ![d] = @ \o <<EventFrame(ev, hit), Frame("PCQ", "check", ev, {})>>]
    /\ Commit(Raised(World, ev))
    /\ UNCHANGED tr

\* what evaluating a breakpoint's condition in frame 0 can come to: the
\* result's value is true, or it is not, or JsDiagEvaluate returns an error
\* code, or a JsErrorException is thrown on the way
ConditionValues == {"true", "false", "error", "threw"}

\* no breakpoint record has the id hit, or the record has no condition
NoCondition == [condition |-> "", value |-> "-"]

\* the loop of DebuggerImpl::EvaluateConditionOnBreakpoint: the record whose
\* actualId is the id hit (the first in the map's order, if several are), and
\* what its condition comes to
ConditionChoices(w, hit) ==
    LET found == {k \in DOMAIN w.ag.breakpointMap : w.ag.breakpointMap[k].actualId = hit}
    IN IF hit < 0 \/ found = {} THEN {NoCondition}
       ELSE UNION {IF w.ag.breakpointMap[k].condition = "" THEN {NoCondition}
                   ELSE {[condition |-> w.ag.breakpointMap[k].condition, value |-> v] :
                            v \in ConditionValues} :
                   k \in found}

\* a decision that pauses at every hit, whatever the condition
ConditionIgnored(c) == "NoSkip"

\* a decision that skips the break when evaluating the condition throws
ThrowSkips(c) ==
    IF c.condition = "" THEN "NoSkip"
    ELSE IF c.value = "true" THEN "NoSkip"
    ELSE "Continue"

\* DebuggerImpl::EvaluateConditionOnBreakpoint
EvaluateConditionOnBreakpoint(c) ==
    IF c.condition = "" THEN "NoSkip"
    ELSE IF c.value \in {"true", "threw"} THEN "NoSkip"
    ELSE "Continue"

\* the decision of DebuggerImpl::HandleBreakEvent
SkipPauseRequest(w, c) ==
    IF w.ag.shouldSkipAllPauses THEN "Continue" ELSE EvaluateConditionOnBreakpoint(c)

\* a break handler that tells the frontend of every break
AlwaysPaused(w, req) == Emit(w, "paused")

\* DebuggerImpl::HandleBreakEvent: the paused notification is sent unless the
\* break is skipped
HandleBreakEvent(w, req) == IF req = "NoSkip" THEN Emit(w, "paused") ELSE w

\* a break that reached the break handler: the engine breakpoint hit, the
\* condition found for it and what it came to, the decision, whether paused
\* was emitted and WaitForDebugger called, and whether the nested message
\* loop was running when the handler was called
BreakHandled(w, c, req, pump, nested, hit) ==
    [w EXCEPT !.g.breaks = @ \cup
        {[value |-> c.value, req |-> req, paused |-> "paused" \in w.out, pump |-> pump,
          nested |-> nested, hit |-> hit, condition |-> c.condition]}]

\* Debugger::HandleSourceEvent
HandleSourceEvent(w, s) ==
    IF w.dbg.sourceEventCallback THEN DebuggerImplHandleSourceEvent(w, s) ELSE w

\* a reentrancy test that lets every break through
NeverReentered(w) == FALSE

\* the first statement of Debugger::HandleBreak: "don't allow reentrancy"
Reentered(w) == w.dbg.isRunningNestedMessageLoop

\* Debugger::HandleBreak up to and into WaitForDebugger
HandleBreak(d, w, ev) ==
    IF Reentered(w) \/ ~w.dbg.breakEventCallback
    THEN PopEvent(d, w)
    ELSE \E c \in ConditionChoices(w, Top(stack[d]).hit) :
            LET req == SkipPauseRequest(w, c)
                w1 == HandleBreakEvent([w EXCEPT !.dbg.isPaused = TRUE], req)
            IN IF req = "NoSkip"
               THEN LET w2 == ProcessDeferredGo([w1 EXCEPT !.dbg.isRunningNestedMessageLoop = TRUE])
                        w3 == [w2 EXCEPT !.ph.waitingForDebugger = TRUE]
                        f == Top(stack[d])
                    IN /\ stack' = [stack EXCEPT ![d] =
                                        Push(SetTop(@, [f EXCEPT !.pc = "wait",
                                                                 !.go = IF w.ph.deferredGo
                                                                        THEN w.g.nextId ELSE 0]),
                                             Frame("PCQ", "check", ev, {}))]
                       /\ Commit(BreakHandled([w3 EXCEPT !.g.asked = FALSE], c, req, TRUE,
                                               w.dbg.isRunningNestedMessageLoop, f.hit))
               ELSE PopEvent(d, ResumeEvent(BreakHandled([w1 EXCEPT !.dbg.isPaused = FALSE],
                                                         c, req, FALSE,
                                                         w.dbg.isRunningNestedMessageLoop,
                                                         Top(stack[d]).hit)))

\* a source event after which no async break is requested
NeverRequestedAgain(w) == w

\* after a source event: "if we still have a pending break-on-next-statement,
\* make another async break request"
BreakRequestedAgain(w) ==
    IF w.dbg.shouldPauseOnNextStatement THEN RequestAsyncBreak(w, EngineThread) ELSE w

\* a test that takes every async break for a requested pause
AlwaysRequested(w) == TRUE

\* the test of the AsyncBreak case: if (m_shouldPauseOnNextStatement)
PauseRequested(w) == w.dbg.shouldPauseOnNextStatement

\* Debugger::HandleDebugEvent after its ProcessCommandQueue call
HandleEvent(d) ==
    /\ OnTop(d, "HDE", "handle")
    /\ LET ev == Top(stack[d]).ev
       IN IF ~dbg.isEnabled THEN PopEvent(d, World)
          ELSE IF ev \in SourceEvents
          THEN PopEvent(d, BreakRequestedAgain(HandleSourceEvent(World, Top(stack[d]).script)))
          ELSE IF ev \in BreakEvents THEN HandleBreak(d, World, ev)
          ELSE IF PauseRequested(World)
          THEN HandleBreak(d, [World EXCEPT !.dbg.shouldPauseOnNextStatement = FALSE], ev)
          ELSE PopEvent(d, World)
    /\ UNCHANGED tr

\* Debugger::HandleBreak after WaitForDebugger has returned
HandleBreakTail(d) ==
    /\ OnTop(d, "HDE", "tail")
    /\ PopEvent(d, ResumeEvent([World EXCEPT !.dbg.isRunningNestedMessageLoop = FALSE,
                                             !.dbg.isPaused = FALSE,
                                             !.g.asked = FALSE]))
    /\ UNCHANGED tr

\* ------------------------------------------ the host's calls on the C API
ApiProcessCommandQueue(d) ==
    /\ Idle(d)
    /\ eng.hostCalls < eng.hostBudget
    /\ stack' = [stack EXCEPT ![d] =
                    <<Frame("ApiPCQ", "call", "-", {}), Frame("PCQ", "check", "-", {})>>]
    /\ eng' = [eng EXCEPT !.hostCalls = @ + 1]
    /\ g' = [g EXCEPT !.offThread = @ \/ d # EngineThread]
    /\ UNCHANGED <<ph, dbg, ag, tr>>

ApiWaitForDebugger(d) ==
    /\ Idle(d)
    /\ eng.hostCalls < eng.hostBudget
    /\ stack' = [stack EXCEPT ![d] =
                    <<Frame("ApiWait", "call", "-", {}), Frame("PCQ", "check", "-", {})>>]
    /\ eng' = [eng EXCEPT !.hostCalls = @ + 1]
    /\ ph' = [ph EXCEPT !.waitingForDebugger = TRUE]
    /\ UNCHANGED <<dbg, ag, g, tr>>

\* ------------------------------------------------ the transport's calls
CanCall(t) == ~eng.crashed /\ tr[t].pc = "idle" /\ g.calls < g.budget

\* the call threw before it changed anything
Failed(w, op) == [w EXCEPT !.g.calls = @ + 1, !.g.failed = @ \cup {op}]

\* the call has left its locked block, with an entry appended
Appended(w, op) == [w EXCEPT !.g.calls = @ + 1]

\* a test that lets every call through
AlwaysAllowed(w) == TRUE

\* Connect's test under the lock: m_sendResponseCallback != nullptr throws
ConnectAllowed(w) == w.ph.sendResponseCallback = NoCallback

\* Disconnect's test under the lock: m_sendResponseCallback == nullptr throws
DisconnectAllowed(w) == w.ph.sendResponseCallback # NoCallback

IdleCall == [pc |-> "idle", id |-> 0, op |-> "-", cb |-> FALSE]

\* the call has left its locked block; cb is the observer callback that
\* SendCommand read in the block and will invoke
ToBreak(t, id, op) ==
    tr' = [tr EXCEPT ![t] = [pc |-> "break", id |-> id, op |-> op,
                             cb |-> op = "sendCommand" /\ ph.commandQueueCallback]]

Connect(t, breakOnNextLine, callback) ==
    /\ CanCall(t)
    /\ IF callback = NoCallback
       THEN Commit(Failed(World, "Connect(nullptr)")) /\ UNCHANGED tr
       ELSE IF ~ConnectAllowed(World)
       THEN Commit(Failed(World, "Connect")) /\ UNCHANGED tr
       ELSE LET w1 == [Lock(Called("connect"), t) EXCEPT
                          !.ph.sendResponseCallback = callback,
                          !.ph.sendResponseCallbackState = callback,
                          !.ph.breakOnConnect = breakOnNextLine,
                          !.ph.startupState = IF breakOnNextLine THEN "Pause" ELSE "Continue",
                          !.g.okCalls = Append(@, "Connect")]
                w2 == EnqueueCommand(Touch(w1, t, "callbackSlots"), t, "Connect", "")
            IN Commit(Appended(Unlock(w2), "Connect")) /\ ToBreak(t, g.nextId, "connect")
    /\ UNCHANGED stack

Disconnect(t) ==
    /\ CanCall(t)
    /\ IF ~DisconnectAllowed(World)
       THEN Commit(Failed(World, "Disconnect")) /\ UNCHANGED tr
       ELSE LET w1 == [Lock(Called("disconnect"), t) EXCEPT
                          !.ph.sendResponseCallback = NoCallback,
                          !.ph.sendResponseCallbackState = NoCallback,
                          !.ph.breakOnConnect = FALSE,
                          !.g.okCalls = Append(@, "Disconnect")]
                w2 == EnqueueCommand(Touch(w1, t, "callbackSlots"), t, "Disconnect", "")
            IN Commit(Appended(Unlock(w2), "Disconnect")) /\ ToBreak(t, g.nextId, "disconnect")
    /\ UNCHANGED stack

SendCommand(t, command) ==
    /\ CanCall(t)
    /\ IF command = NullCommand
       THEN Commit(Failed(World, "SendCommand")) /\ UNCHANGED tr
       ELSE LET w1 == EnqueueCommand(Lock(Called("sendCommand"), t), t, "MessageReceived", command)
            IN /\ Commit(Appended(Unlock(Touch(w1, t, "callbackSlots")), "SendCommand"))
               /\ ToBreak(t, g.nextId, "sendCommand")
    /\ UNCHANGED stack

SendRequest(t, request) ==
    /\ CanCall(t)
    /\ LET w1 == EnqueueCommand(Lock(Called("sendRequest"), t), t, "HostRequest", request)
       IN /\ Commit(Appended(Unlock(Touch(w1, t, "callbackSlots")), "SendRequest"))
          /\ ToBreak(t, g.nextId, "sendRequest")
    /\ UNCHANGED stack

\* what follows the locked block of the four calls above: the async break is
\* requested, the host is notified, the call returns
BreakAndReturn(t) ==
    /\ ~eng.crashed
    /\ tr[t].pc = "break"
    /\ LET w1 == RequestAsyncBreak(Called(tr[t].op), t)
       IN Commit(IF tr[t].cb THEN CallbackInvoked(w1, t, "commandQueueCallback") ELSE w1)
    /\ tr' = [tr EXCEPT ![t] = IdleCall]
    /\ UNCHANGED stack

SetCommandQueueCallback(t, callback) ==
    /\ CanCall(t)
    /\ Commit(Unlock(Touch([Lock(Called("setCommandQueueCallback"), t) EXCEPT
                                 !.ph.commandQueueCallback = callback,
                                 !.g.calls = @ + 1], t, "callbackSlots")))
    /\ UNCHANGED <<stack, tr>>

\* RuntimeImpl::consoleAPIEvent: each argument goes through WrapValue, the
\* notification through SendResponse
RuntimeImplConsoleAPIEvent(w, th, argc) ==
    LET w1 == IF argc > 0 THEN Touch(w, th, "engineApi") ELSE w
    IN SendResponse(w1)

\* ProtocolHandler::ConsoleAPIEvent, called by the thread th
ProtocolHandlerConsoleAPIEvent(w, th, argc) ==
    IF w.ph.agents THEN RuntimeImplConsoleAPIEvent(Touch(w, th, "agent"), th, argc) ELSE w

ConsoleAPIEvent(t, argc) ==
    /\ CanCall(t)
    /\ Commit([ProtocolHandlerConsoleAPIEvent(Called("consoleAPIEvent"), t, argc) EXCEPT
                  !.g.calls = @ + 1])
    /\ UNCHANGED <<stack, tr>>

\* the script's console call on the engine thread
EngineConsoleAPIEvent(d, argc) ==
    /\ Idle(d)
    /\ eng.hostCalls < eng.hostBudget
    /\ Commit([ProtocolHandlerConsoleAPIEvent(World, d, argc) EXCEPT !.eng.hostCalls = @ + 1])
    /\ UNCHANGED <<stack, tr>>

\* ------------------------------------------------------- specifications
Init ==
    /\ ph = InitPh
    /\ dbg = InitDbg
    /\ ag = InitAg
    /\ eng = InitEng
    /\ g = InitG
    /\ stack = [d \in {EngineThread, HostThread} |-> <<>>]
    /\ tr = [t \in Transports |-> IdleCall]

Drain(d) ==
    \/ PCQCheck(d)
    \/ PCQSet(d)
    \/ PCQSwap(d)
    \/ PCQDispatch(d)
    \/ EvalFinish(d)

Engine ==
    \/ \E ev \in RaisedEvents : EngineEvent(EngineThread, ev)
    \/ \E ev \in RaisedEvents : NestedEvent(EngineThread, ev)
    \/ HandleEvent(EngineThread)
    \/ HandleBreakTail(EngineThread)
    \/ ApiProcessCommandQueue(EngineThread)
    \/ ApiWaitForDebugger(EngineThread)
    \/ \E argc \in ArgCounts : EngineConsoleAPIEvent(EngineThread, argc)

Transport(t) ==
    \/ \E b \in BOOLEAN, cb \in Callbacks : Connect(t, b, cb)
    \/ Disconnect(t)
    \/ \E m \in Commands : SendCommand(t, m)
    \/ \E r \in HostRequests : SendRequest(t, r)
    \/ BreakAndReturn(t)
    \/ \E cb \in BOOLEAN : SetCommandQueueCallback(t, cb)
    \/ \E argc \in ArgCounts : ConsoleAPIEvent(t, argc)

Next ==
    \/ Drain(EngineThread)
    \/ Engine
    \/ \E t \in Transports : Transport(t)

Spec == Init /\ [][Next]_vars

\* One more call, fewer kinds of call: a frontend connects and sends requests,
\* one kind of which fails inside its handler; the queue is drained by engine
\* events and by the host's ProcessCommandQueue calls.
InitBatch ==
    /\ ph = InitPh
    /\ dbg = InitDbg
    /\ ag = InitAg
    /\ eng = InitEng
    /\ g = [InitG EXCEPT !.budget = MaxBatchCalls]
    /\ stack = [d \in {EngineThread, HostThread} |-> <<>>]
    /\ tr = [t \in Transports |-> IdleCall]

NextBatch ==
    \/ PCQCheck(EngineThread)
    \/ PCQSet(EngineThread)
    \/ PCQSwap(EngineThread)
    \/ PCQDispatch(EngineThread)
    \/ \E ev \in BatchEvents : EngineEvent(EngineThread, ev)
    \/ HandleEvent(EngineThread)
    \/ ApiProcessCommandQueue(EngineThread)
    \/ \E t \in Transports :
          \/ \E b \in BOOLEAN : Connect(t, b, 1)
          \/ \E m \in BatchCommands : SendCommand(t, m)
          \/ BreakAndReturn(t)

SpecBatch == InitBatch /\ [][NextBatch]_vars

\* The host also calls ProcessCommandQueue on a thread of its own, while the
\* engine thread drains the queue from its events.
NextTwo ==
    \/ \E d \in {EngineThread, HostThread} :
          \/ PCQCheck(d)
          \/ PCQSet(d)
          \/ PCQSwap(d)
          \/ PCQDispatch(d)
          \/ EvalFinish(d)
          \/ ApiProcessCommandQueue(d)
    \/ \E ev \in BatchEvents : EngineEvent(EngineThread, ev)
    \/ \E ev \in BatchEvents : NestedEvent(EngineThread, ev)
    \/ HandleEvent(EngineThread)
    \/ \E t \in Transports :
          \/ \E b \in BOOLEAN : Connect(t, b, 1)
          \/ \E m \in TwoCommands : SendCommand(t, m)
          \/ BreakAndReturn(t)

SpecTwo == Init /\ [][NextTwo]_vars

\* A frontend that works with the Debugger agent: it connects, then sends one
\* request at a time, the next one when the last has been dispatched, and the
\* engine thread goes on when the frontend's call has returned. The
\* host drains the queue when it has been told of a command, and the engine
\* compiles scripts and hits the breakpoints set.
AgentCommands ==
    {"Debugger.enable", "Debugger.disable", "Debugger.resume"} \cup SetBreakpointRequests
AgentEvents == {"SourceCompile", "Breakpoint"}

InitAgent ==
    /\ ph = InitPh
    /\ dbg = InitDbg
    /\ ag = InitAg
    /\ eng = [InitEng EXCEPT !.eventBudget = MaxAgentEvents, !.hostBudget = MaxAgentCalls]
    /\ g = [InitG EXCEPT !.budget = MaxAgentCalls]
    /\ stack = [d \in {EngineThread, HostThread} |-> <<>>]
    /\ tr = [t \in Transports |-> IdleCall]

\* every call of the frontend has returned
CallsReturned == \A t \in Transports : tr[t].pc = "idle"

\* no entry is waiting to be dispatched
NoneOutstanding ==
    /\ ph.commandQueue = <<>>
    /\ \A k \in 1..Len(stack[EngineThread]) : stack[EngineThread][k].cur = <<>>

\* the engine thread and the frontend, which sends the requests of cmds
FrontendAndEngine(cmds) ==
    \/ CallsReturned /\ PCQCheck(EngineThread)
    \/ CallsReturned /\ PCQSet(EngineThread)
    \/ CallsReturned /\ PCQSwap(EngineThread)
    \/ CallsReturned /\ PCQDispatch(EngineThread)
    \/ \E ev \in AgentEvents : CallsReturned /\ EngineEvent(EngineThread, ev)
    \/ CallsReturned /\ HandleEvent(EngineThread)
    \/ CallsReturned /\ HandleBreakTail(EngineThread)
    \/ CallsReturned /\ ph.commandQueue # <<>> /\ ApiProcessCommandQueue(EngineThread)
    \/ \E t \in Transports :
          \/ NoneOutstanding /\ Connect(t, FALSE, 1)
          \/ \E m \in cmds : NoneOutstanding /\ ph.isConnected /\ SendCommand(t, m)
          \/ BreakAndReturn(t)

NextAgent == FrontendAndEngine(AgentCommands)

SpecAgent == InitAgent /\ [][NextAgent]_vars

\* A frontend that sets breakpoints, with and without a condition, removes
\* them and resumes the engine when it has paused
BreakCommands ==
    {"Debugger.enable", "Debugger.resume",
     "Debugger.setBreakpointByUrl:a", "Debugger.setBreakpointByUrl:a?c",
     "Debugger.removeBreakpoint:a", "Debugger.removeBreakpoint:x"}

InitBreak ==
    /\ ph = InitPh
    /\ dbg = InitDbg
    /\ ag = InitAg
    /\ eng = [InitEng EXCEPT !.eventBudget = MaxBreakEvents, !.hostBudget = MaxBreakCalls]
    /\ g = [InitG EXCEPT !.budget = MaxBreakCalls]
    /\ stack = [d \in {EngineThread, HostThread} |-> <<>>]
    /\ tr = [t \in Transports |-> IdleCall]

NextBreak == FrontendAndEngine(BreakCommands)

SpecBreak == InitBreak /\ [][NextBreak]_vars

\* A frontend that evaluates: Runtime.evaluate with its flags, and
\* Debugger.evaluateOnCallFrame while the engine is paused at a debugger
\* statement. It sends a request when the queue is empty, so also while the
\* engine evaluates the last one, and the script evaluated can raise events.
EvalCommands ==
    {"Debugger.enable", "Debugger.resume"} \cup EvaluateRequests \cup CallFrameRequests
EvalEvents == {"SourceCompile", "DebuggerStatement"}

InitEval ==
    /\ ph = InitPh
    /\ dbg = InitDbg
    /\ ag = InitAg
    /\ eng = [InitEng EXCEPT !.eventBudget = MaxEvalEvents, !.hostBudget = MaxEvalCalls]
    /\ g = [InitG EXCEPT !.budget = MaxEvalCalls]
    /\ stack = [d \in {EngineThread, HostThread} |-> <<>>]
    /\ tr = [t \in Transports |-> IdleCall]

NextEval ==
    \/ CallsReturned /\ PCQCheck(EngineThread)
    \/ CallsReturned /\ PCQSet(EngineThread)
    \/ CallsReturned /\ PCQSwap(EngineThread)
    \/ CallsReturned /\ PCQDispatch(EngineThread)
    \/ CallsReturned /\ EvalFinish(EngineThread)
    \/ \E ev \in EvalEvents : CallsReturned /\ EngineEvent(EngineThread, ev)
    \/ \E ev \in EvalEvents : CallsReturned /\ NestedEvent(EngineThread, ev)
    \/ CallsReturned /\ HandleEvent(EngineThread)
    \/ CallsReturned /\ HandleBreakTail(EngineThread)
    \/ CallsReturned /\ ph.commandQueue # <<>> /\ ApiProcessCommandQueue(EngineThread)
    \/ \E t \in Transports :
          \/ ph.commandQueue = <<>> /\ Connect(t, FALSE, 1)
          \/ \E m \in EvalCommands :
                ph.commandQueue = <<>> /\ ph.isConnected /\ SendCommand(t, m)
          \/ BreakAndReturn(t)

SpecEval == InitEval /\ [][NextEval]_vars

\* A frontend that connects with or without breakOnNextLine, enables the
\* agents, lets a waiting host run, resumes, steps and disconnects, one call
\* at a time; the host waits for the debugger, drains the queue or requests a
\* go, and the engine compiles scripts and raises the async breaks requested.
PauseCommands ==
    {"Debugger.enable", "Debugger.resume", "Debugger.stepInto", "Runtime.enable",
     "Runtime.runIfWaitingForDebugger"}
PauseRequests == {"Debugger.go"}
PauseEvents == {"SourceCompile", "AsyncBreak"}

InitPause ==
    /\ ph = InitPh
    /\ dbg = InitDbg
    /\ ag = InitAg
    /\ eng = [InitEng EXCEPT !.eventBudget = MaxPauseEvents]
    /\ g = [InitG EXCEPT !.budget = MaxPauseCalls]
    /\ stack = [d \in {EngineThread, HostThread} |-> <<>>]
    /\ tr = [t \in Transports |-> IdleCall]

NextPause ==
    \/ CallsReturned /\ PCQCheck(EngineThread)
    \/ CallsReturned /\ PCQSet(EngineThread)
    \/ CallsReturned /\ PCQSwap(EngineThread)
    \/ CallsReturned /\ PCQDispatch(EngineThread)
    \/ \E ev \in PauseEvents : CallsReturned /\ EngineEvent(EngineThread, ev)
    \/ CallsReturned /\ HandleEvent(EngineThread)
    \/ CallsReturned /\ HandleBreakTail(EngineThread)
    \/ CallsReturned /\ ApiProcessCommandQueue(EngineThread)
    \/ CallsReturned /\ ApiWaitForDebugger(EngineThread)
    \/ \E t \in Transports :
          \/ \E b \in BOOLEAN : NoneOutstanding /\ Connect(t, b, 1)
          \/ NoneOutstanding /\ Disconnect(t)
          \/ \E m \in PauseCommands :
                NoneOutstanding /\ ph.isConnected /\ SendCommand(t, m)
          \/ \E r \in PauseRequests : NoneOutstanding /\ SendRequest(t, r)
          \/ BreakAndReturn(t)

SpecPause == InitPause /\ [][NextPause]_vars

\* A host that asks for a deferred go, and a frontend that enables the
\* Debugger agent, resumes, evaluates and sends a request whose handler
\* throws, at any time; the engine runs into debugger statements, also in the
\* script a Runtime.evaluate gave it.
GoCommands == {"Debugger.enable", "Debugger.resume", "Runtime.evaluate", BadRequest}
GoRequests == {"Debugger.deferredGo"}
GoEvents == {"DebuggerStatement"}

InitGo ==
    /\ ph = InitPh
    /\ dbg = InitDbg
    /\ ag = InitAg
    /\ eng = [InitEng EXCEPT !.eventBudget = MaxGoEvents]
    /\ g = [InitG EXCEPT !.budget = MaxGoCalls]
    /\ stack = [d \in {EngineThread, HostThread} |-> <<>>]
    /\ tr = [t \in Transports |-> IdleCall]

NextGo ==
    \/ CallsReturned /\ PCQCheck(EngineThread)
    \/ CallsReturned /\ PCQSet(EngineThread)
    \/ CallsReturned /\ PCQSwap(EngineThread)
    \/ CallsReturned /\ PCQDispatch(EngineThread)
    \/ CallsReturned /\ EvalFinish(EngineThread)
    \/ \E ev \in GoEvents : CallsReturned /\ EngineEvent(EngineThread, ev)
    \/ \E ev \in GoEvents : CallsReturned /\ NestedEvent(EngineThread, ev)
    \/ CallsReturned /\ HandleEvent(EngineThread)
    \/ CallsReturned /\ HandleBreakTail(EngineThread)
    \/ \E t \in Transports :
          \/ ph.commandQueue = <<>> /\ Connect(t, FALSE, 1)
          \/ \E m \in GoCommands : ph.isConnected /\ SendCommand(t, m)
          \/ \E r \in GoRequests : ph.isConnected /\ SendRequest(t, r)
          \/ BreakAndReturn(t)

SpecGo == InitGo /\ [][NextGo]_vars

\* Every user of the mutex: a host that installs its observer callback and
\* asks for a deferred go, a frontend that connects, enables the debugger and
\* disconnects, at any time, and an engine that runs into debugger statements.
LockCommands == {"Debugger.enable"}
LockRequests == {"Debugger.deferredGo"}
LockEvents == {"DebuggerStatement"}

InitLock ==
    /\ ph = InitPh
    /\ dbg = InitDbg
    /\ ag = InitAg
    /\ eng = [InitEng EXCEPT !.eventBudget = MaxLockEvents]
    /\ g = [InitG EXCEPT !.budget = MaxLockCalls]
    /\ stack = [d \in {EngineThread, HostThread} |-> <<>>]
    /\ tr = [t \in Transports |-> IdleCall]

NextLock ==
    \/ CallsReturned /\ PCQCheck(EngineThread)
    \/ CallsReturned /\ PCQSet(EngineThread)
    \/ CallsReturned /\ PCQSwap(EngineThread)
    \/ CallsReturned /\ PCQDispatch(EngineThread)
    \/ \E ev \in LockEvents : CallsReturned /\ EngineEvent(EngineThread, ev)
    \/ CallsReturned /\ HandleEvent(EngineThread)
    \/ CallsReturned /\ HandleBreakTail(EngineThread)
    \/ \E t \in Transports :
          \/ ph.commandQueue = <<>> /\ Connect(t, FALSE, 1)
          \/ ph.commandQueue = <<>> /\ Disconnect(t)
          \/ ~ph.commandQueueCallback /\ SetCommandQueueCallback(t, TRUE)
          \/ \E m \in LockCommands : ph.isConnected /\ SendCommand(t, m)
          \/ \E r \in LockRequests : ph.isConnected /\ SendRequest(t, r)
          \/ BreakAndReturn(t)

SpecLock == InitLock /\ [][NextLock]_vars

\* A frontend that evaluates on every path of RuntimeImpl::evaluate: with
\* throwOnSideEffect, with awaitPromise (silent or not), paused at a debugger
\* statement, not paused, and with an expression whose value cannot be wrapped.
WrapCommands ==
    {"Debugger.enable", "Debugger.resume", "Runtime.evaluate",
     "Runtime.evaluate:throwOnSideEffect", "Runtime.evaluate:awaitPromise",
     "Runtime.evaluate:awaitPromise,silent", SymbolRequest}
WrapEvents == {"DebuggerStatement"}

InitWrap ==
    /\ ph = InitPh
    /\ dbg = InitDbg
    /\ ag = InitAg
    /\ eng = [InitEng EXCEPT !.eventBudget = MaxWrapEvents, !.hostBudget = MaxWrapCalls]
    /\ g = [InitG EXCEPT !.budget = MaxWrapCalls]
    /\ stack = [d \in {EngineThread, HostThread} |-> <<>>]
    /\ tr = [t \in Transports |-> IdleCall]

NextWrap ==
    \/ CallsReturned /\ PCQCheck(EngineThread)
    \/ CallsReturned /\ PCQSet(EngineThread)
    \/ CallsReturned /\ PCQSwap(EngineThread)
    \/ CallsReturned /\ PCQDispatch(EngineThread)
    \/ CallsReturned /\ EvalFinish(EngineThread)
    \/ \E ev \in WrapEvents : CallsReturned /\ EngineEvent(EngineThread, ev)
    \/ \E ev \in WrapEvents : CallsReturned /\ NestedEvent(EngineThread, ev)
    \/ CallsReturned /\ HandleEvent(EngineThread)
    \/ CallsReturned /\ HandleBreakTail(EngineThread)
    \/ CallsReturned /\ ph.commandQueue # <<>> /\ ApiProcessCommandQueue(EngineThread)
    \/ \E t \in Transports :
          \/ ph.commandQueue = <<>> /\ Connect(t, FALSE, 1)
          \/ \E m \in WrapCommands :
                ph.commandQueue = <<>> /\ ph.isConnected /\ SendCommand(t, m)
          \/ BreakAndReturn(t)

SpecWrap == InitWrap /\ [][NextWrap]_vars

\* ProtocolHandler::SendResponse by its accesses to the two callback slots,
\* neither under m_lock. The frame holds in hit the callback that the test
\* read. An agent sends a notification on the engine thread
\* (RuntimeImpl::consoleAPIEvent through ProtocolHandler::ConsoleAPIEvent):
SendResponseBegin(d) ==
    /\ Idle(d)
    /\ ph.agents
    /\ eng.hostCalls < eng.hostBudget
    /\ stack' = [stack EXCEPT ![d] = <<Frame("SendResponse", "test", "-", {})>>]
    /\ eng' = [eng EXCEPT !.hostCalls = @ + 1]
    /\ UNCHANGED <<ph, dbg, ag, g, tr>>

\* if (m_sendResponseCallback != nullptr)
SendResponseTest(d) ==
    /\ OnTop(d, "SendResponse", "test")
    /\ stack' = [stack EXCEPT ![d] =
                    IF ph.sendResponseCallback = NoCallback THEN Pop(@)
                    ELSE SetTop(@, [Top(@) EXCEPT !.pc = "call",
                                                  !.hit = ph.sendResponseCallback])]
    /\ Commit(Unguarded(World, "sendResponseCallback"))
    /\ UNCHANGED tr

\* the callback as the call reads it: the value the test read, kept in a
\* register, or the slot read again
CalledThrough(f, w) == {f.hit, w.ph.sendResponseCallback}

\* the callback fn is invoked with the state the slot holds now; whether the
\* slot still holds fn, and whether a call of the transport is under way,
\* is recorded
Invoked(w, fn) ==
    [w EXCEPT !.g.invoked = @ \cup
        {[callback |-> fn, state |-> w.ph.sendResponseCallbackState,
          installed |-> w.ph.sendResponseCallback = fn,
          returned |-> \A t \in Transports : tr[t].pc = "idle"]}]

\* m_sendResponseCallback(response, m_sendResponseCallbackState); a call
\* through a null pointer ends the process
SendResponseCall(d) ==
    /\ OnTop(d, "SendResponse", "call")
    /\ \E fn \in CalledThrough(Top(stack[d]), World) :
          IF fn = NoCallback
          THEN Commit(Crash(World)) /\ UNCHANGED stack
          ELSE /\ Commit(Invoked(Unguarded(World, "sendResponseCallbackState"), fn))
               /\ stack' = [stack EXCEPT ![d] = Pop(@)]
    /\ UNCHANGED tr

\* Two frontends, one after the other, each with its callback and state: they
\* connect, send a request and disconnect at any time, while the engine
\* thread drains the queue from its events and sends notifications.
ConnCallbacks == {1, 2}
ConnCommands == {"Debugger.enable"}
ConnEvents == {"SourceCompile"}

InitConn ==
    /\ ph = InitPh
    /\ dbg = InitDbg
    /\ ag = InitAg
    /\ eng = [InitEng EXCEPT !.eventBudget = MaxConnEvents, !.hostBudget = MaxConnSends]
    /\ g = [InitG EXCEPT !.budget = MaxConnCalls]
    /\ stack = [d \in {EngineThread, HostThread} |-> <<>>]
    /\ tr = [t \in Transports |-> IdleCall]

NextConn ==
    \/ PCQCheck(EngineThread)
    \/ PCQSet(EngineThread)
    \/ PCQSwap(EngineThread)
    \/ PCQDispatch(EngineThread)
    \/ \E ev \in ConnEvents : EngineEvent(EngineThread, ev)
    \/ HandleEvent(EngineThread)
    \/ SendResponseBegin(EngineThread)
    \/ SendResponseTest(EngineThread)
    \/ SendResponseCall(EngineThread)
    \/ \E t \in Transports :
          \/ \E cb \in ConnCallbacks : Connect(t, FALSE, cb)
          \/ Disconnect(t)
          \/ \E m \in ConnCommands : SendCommand(t, m)
          \/ BreakAndReturn(t)

SpecConn == InitConn /\ [][NextConn]_vars

\* ----------------------------------------------------------------- claims
Dispatched == g.dispatched

\* the entries a drain has swapped out of the queue and not yet dispatched
InBatch(d) == UNION {{f.cur[i].id : i \in 1..Len(f.cur)} : f \in {stack[d][k] : k \in 1..Len(stack[d])}}

QueuedIds == {ph.commandQueue[i].id : i \in 1..Len(ph.commandQueue)}

PendingIds == QueuedIds \cup InBatch(EngineThread) \cup InBatch(HostThread)

\* C1: entries are dispatched in the order they were appended: if a was
\* appended before b, a is dispatched before b. Ids are given in append order,
\* so the dispatch log is 1, 2, 3, ... with no entry passed over.
C1_FifoDispatch == \A i \in 1..Len(Dispatched) : Dispatched[i].id = i

\* C2: the successful Connect and Disconnect calls alternate, starting with
\* Connect, a frontend's callback is installed exactly between a successful
\* Connect and the next successful Disconnect, and a call that fails leaves
\* the queue as it found it.
ConnectsAlternate ==
    /\ \A i \in 1..Len(g.okCalls) :
          g.okCalls[i] = IF i % 2 = 1 THEN "Connect" ELSE "Disconnect"
    /\ (ph.sendResponseCallback # NoCallback) <=> (Len(g.okCalls) % 2 = 1)

\* a call has been made and has not gone on to request the async break
NothingAppendedStep == g'.calls # g.calls /\ tr' = tr

FailedCallStep == NothingAppendedStep => ph'.commandQueue = ph.commandQueue

C2_OneFrontend == []ConnectsAlternate /\ [][FailedCallStep]_vars

\* C2's case: a Connect failed while a frontend was connected, and a
\* Disconnect succeeded after it
C2_Witness ==
    /\ g.okCalls = <<"Connect", "Disconnect">>
    /\ "Connect" \in g.failed

\* C4: a failed dispatch fails that entry only: the entries appended after an
\* entry whose dispatch raised are dispatched or still waiting to be.
C4_FailureIsolated ==
    ~eng.crashed =>
        \A i \in 1..Len(Dispatched) :
            Dispatched[i].out = "threw" =>
                \A id \in (Dispatched[i].id + 1)..(g.nextId - 1) :
                    id \in DispatchedIds(World) \cup PendingIds

\* C8: a request whose internal operation fails is answered with an error
\* response: no dispatch ends with the failure leaving it.
C8_FailureAnswered == \A i \in 1..Len(Dispatched) : Dispatched[i].out # "threw"

\* the calls of ProcessCommandQueue on thread d that are past the guard
ActiveDrains(d) == {k \in 1..Len(stack[d]) : stack[d][k].fn = "PCQ" /\ stack[d][k].pc # "check"}

\* C3 as stated: of the calls of ProcessCommandQueue in progress, on whatever
\* threads, at most one is past the guard.
C3_OneDrainer ==
    Cardinality(ActiveDrains(EngineThread)) + Cardinality(ActiveDrains(HostThread)) <= 1

\* C3 amended: as long as only the engine thread has called
\* ProcessCommandQueue, at most one call is past the guard: a call made while
\* a drain is in progress on that thread returns at the guard.
C3_NoRecursion == ~g.offThread => Cardinality(ActiveDrains(EngineThread)) <= 1

\* C3's case: an engine event raised inside a dispatch has called
\* ProcessCommandQueue, which returned at the guard, the drain still in progress
C3_Witness ==
    /\ ~g.offThread
    /\ Len(stack[EngineThread]) = 3
    /\ stack[EngineThread][2].fn = "PCQ" /\ stack[EngineThread][2].pc = "eval"
    /\ stack[EngineThread][3].fn = "HDE" /\ stack[EngineThread][3].pc = "handle"

\* C5: an engine event that begins after a producer call has returned
\* dispatches that call's entry before it returns to the engine.
C5_EventSeesEntries == ~g.eventMissed

\* C6: waitingForDebugger is false whenever WaitForDebugger returns.
C6_WaitReturnsReleased == TRUE \notin g.waitRet

\* C7: the nested pump is left only by the drain loop ending after a command
\* has released it, the batch finished: never while no release has been
\* dispatched, and never with the rest of a batch undone.
C7_PumpReleased == g.pumpExits \subseteq {"loop"}

\* the resources the transport's operations are said to touch
SharedResources == {"queue", "callbackSlots", "requestAsyncBreak"}

C10_GuardedByMutex == g.unguarded = {}

\* C11: for every script in the Debugger agent's script map exactly one
\* scriptParsed (or scriptFailedToParse) notification has been emitted since
\* the enable that started the enabled period
C11_ParsedOnce ==
    (ph.agents /\ ag.debuggerEnabled) => \A s \in ag.scriptMap : g.parsed[s] = 1


\* C12: after Debugger.disable has been dispatched, and at the agent's teardown
\* on Disconnect, the script map and the breakpoint map are empty, the
\* skip-all-pauses flag is false and no source, break or resume handler is
\* installed in the Debugger Core, whether or not enable was called before
C12_DisableClears ==
    \A r \in g.afterDisable :
        ~r.scripts /\ ~r.breakpoints /\ ~r.skipAllPauses /\ ~r.handlers

\* C13: a setBreakpointByUrl dispatched again with identical url or urlRegex,
\* line, column and condition, with no removeBreakpoint or disable in between,
\* returns BreakpointExists, whatever became of the first
C13_SecondExists == g.setAgain \subseteq {"BreakpointExists"}

\* C14: a successful setBreakpointByUrl whose fingerprint is new and that
\* matches no loaded script returns a breakpointId and no location, and the
\* breakpoint is stored under that id, whatever else is registered
C14_UnmatchedStored ==
    \A r \in g.unmatchedSet : r.breakpointId /\ r.locations = 0 /\ r.stored

\* C15: setBreakpointByUrl fails with UrlRequired unless exactly one of url and
\* urlRegex is supplied and with InvalidColumnNumber for a negative column, and
\* in each of these cases the breakpoint map and the engine's breakpoints are
\* as they were
C15_Refused ==
    \A r \in g.invalidSet :
        /\ r.urls # 1 => r.out = "UrlRequired"
        /\ r.urls = 1 => r.out = "InvalidColumnNumber"
        /\ r.same

C18_NeverEvaluates ==
    \A r \in g.sideEffect :
        /\ r.api = {}
        /\ r.engine
        /\ r.reply = "success"
        /\ r.result = "undefined"
        /\ r.text = "Possible side effects of expression evaluation"

\* such requests have been dispatched, one of them with awaitPromise and
\* silent set and one with neither
C18_Witness ==
    /\ \E r \in g.sideEffect : r.awaitPromise /\ r.silent
    /\ \E r \in g.sideEffect : ~r.awaitPromise /\ ~r.silent

\* C19: GetCallFrame(ordinal) fails with InvalidOrdinal for every ordinal that
\* is not in 0..frameCount-1 and returns the frame at that index otherwise
C19_OrdinalChecked ==
    \A r \in g.frames :
        IF r.ordinal \in 0..(r.trace - 1)
        THEN r.error = "" /\ r.frame = r.ordinal
        ELSE r.error = "InvalidOrdinal"

\* C20: when the handling of an engine event begins, every entry enqueued by
\* a call that had returned when the event callback started has been
\* dispatched, also for an event delivered inside a drain or a nested pump
C20_DrainedBeforeHandling ==
    (OnTop(EngineThread, "HDE", "handle") /\ dbg.isEnabled)
        => Top(stack[EngineThread]).snap \subseteq DispatchedIds(World)


\* the engine thread takes the first step of a ProcessCommandQueue call that
\* finds m_processingCommandQueue set
NestedCallStep ==
    /\ OnTop(EngineThread, "PCQ", "check")
    /\ ph.processingCommandQueue
    /\ stack'[EngineThread] # stack[EngineThread]

\* C21: a call of ProcessCommandQueue made while a drain is in progress on the
\* engine thread returns at once: the queue keeps its entries, nothing is
\* dispatched, the call's frame is gone after its first step (it does not
\* wait), and processingCommandQueue stays set for the outer drain.
C21_NestedReturns ==
    [][NestedCallStep =>
        /\ ph'.commandQueue = ph.commandQueue
        /\ ph'.processingCommandQueue
        /\ g'.dispatched = g.dispatched
        /\ Len(stack'[EngineThread]) = Len(stack[EngineThread]) - 1
        /\ \A k \in 1..Len(stack'[EngineThread]) :
              stack'[EngineThread][k].cur = stack[EngineThread][k].cur]_vars

\* C21's case: an event raised inside the dispatch of Runtime.evaluate called
\* ProcessCommandQueue with a request queued; the call has returned, the
\* request is still queued and the outer drain's flag is set
C21_Witness ==
    /\ Len(stack[EngineThread]) >= 3
    /\ OnTop(EngineThread, "HDE", "handle")
    /\ stack[EngineThread][Len(stack[EngineThread]) - 1].fn = "PCQ"
    /\ stack[EngineThread][Len(stack[EngineThread]) - 1].pc = "eval"
    /\ ph.processingCommandQueue
    /\ ph.commandQueue # <<>>


\* the engine thread's step handles a break event that arrived while the
\* nested message loop was running
IgnoredBreakStep ==
    /\ OnTop(EngineThread, "HDE", "handle")
    /\ IgnoredBreak(Top(stack[EngineThread]))
    /\ stack'[EngineThread] # stack[EngineThread]

\* the nested pumps in progress: the calls of HandleBreak that are inside
\* their WaitForDebugger call
NestedPumps ==
    {k \in 1..Len(stack[EngineThread]) :
        stack[EngineThread][k].fn = "HDE" /\ stack[EngineThread][k].pc = "wait"}

\* C22: a break event (Breakpoint, StepComplete, DebuggerStatement,
\* RuntimeException, AsyncBreak) handled while isRunningNestedMessageLoop is
\* set is ignored: the break handler is not called, no notification is sent,
\* isPaused and waitingForDebugger keep their values, the event returns
\* without a second nested pump, and at most one nested pump is in progress
\* at any time.
C22_BreakIgnored ==
    /\ [](/\ Cardinality(NestedPumps) <= 1
          /\ ~g.loudIgnored
          /\ \A r \in g.breaks : ~r.nested)
    /\ [][IgnoredBreakStep =>
            /\ dbg'.isPaused = dbg.isPaused
            /\ dbg'.isRunningNestedMessageLoop
            /\ ph'.waitingForDebugger = ph.waitingForDebugger
            /\ g'.breaks = g.breaks
            /\ stack'[EngineThread] = Pop(stack[EngineThread])]_vars

\* C22's case: the engine paused at a break, the pump dispatched
\* Runtime.evaluate, the script evaluated raised a second break event, and
\* that event has returned to the evaluation with the pump still running
C22_Witness ==
    /\ Len(stack[EngineThread]) = 2
    /\ stack[EngineThread][1].fn = "HDE" /\ stack[EngineThread][1].pc = "wait"
    /\ OnTop(EngineThread, "PCQ", "eval")
    /\ dbg.isEnabled /\ dbg.isRunningNestedMessageLoop /\ dbg.isPaused
    /\ eng.events = 2 /\ eng.scripts = {}
    /\ g.breaks # {}


\* the engine thread's step is HandleDebugEvent's switch on an AsyncBreak event
AsyncBreakStep ==
    /\ OnTop(EngineThread, "HDE", "handle")
    /\ Top(stack[EngineThread]).ev = "AsyncBreak"
    /\ stack'[EngineThread] # stack[EngineThread]

\* the step called the break handler or entered the nested pump
BreakHandlingStep ==
    \/ g'.breaks # g.breaks
    \/ dbg'.isPaused # dbg.isPaused
    \/ Len(stack'[EngineThread]) > Len(stack[EngineThread])

\* whether the step called the break handler depends on the flag, and an
\* event handled with the flag clear neither calls the handler nor pauses
OnlyIfRequested ==
    /\ BreakHandlingStep => dbg.shouldPauseOnNextStatement
    /\ ~dbg.shouldPauseOnNextStatement =>
          /\ stack'[EngineThread] = Pop(stack[EngineThread])
          /\ ph'.waitingForDebugger = ph.waitingForDebugger
          /\ dbg' = dbg

SourceEventStep ==
    /\ OnTop(EngineThread, "HDE", "handle")
    /\ Top(stack[EngineThread]).ev \in SourceEvents
    /\ stack'[EngineThread] # stack[EngineThread]

\* the step's AsyncBreak event finds a pause requested that the Core can hand
\* to a break handler
PauseDue ==
    /\ dbg.isEnabled
    /\ dbg.shouldPauseOnNextStatement
    /\ dbg.breakEventCallback
    /\ ~dbg.isRunningNestedMessageLoop

\* C24: a source event handled by the enabled Core with
\* shouldPauseOnNextStatement set after the source handler leaves the async
\* break requested again and the flag set, and an AsyncBreak event that then
\* finds the pause due enters the break handler and pauses.
C24_PauseNotLost ==
    /\ [][(SourceEventStep /\ dbg.isEnabled /\ dbg'.shouldPauseOnNextStatement) =>
            /\ eng'.asyncBreakRequested
            /\ dbg.shouldPauseOnNextStatement]_vars
    /\ [][(AsyncBreakStep /\ PauseDue) =>
            /\ dbg'.isPaused
            /\ ~dbg'.shouldPauseOnNextStatement
            /\ InWait(Pop(stack'[EngineThread]))]_vars

\* C24's case: connect and enable were the only calls, both made before the
\* script was compiled; its source event was handled with the agent enabled
\* and the pause pending, and the AsyncBreak event that followed has paused
C24_Witness ==
    /\ \E k \in NestedPumps : stack[EngineThread][k].ev = "AsyncBreak"
    /\ g.calls = 2
    /\ g.parsed[1] = 2
    /\ dbg.isPaused
    /\ ph.waitingForDebugger


\* the breaks at a breakpoint whose record was found with a condition
Conditional == {r \in g.breaks : r.hit >= 0 /\ r.condition # ""}

C27_ParsedThenResolved ==
    \A r \in g.resolvedNotes : r.parsed /\ r.inMap /\ ~r.again


\* C28: a record of the map with actualId >= 0 carries the id, the line and
\* the column that the engine returned from JsDiagSetBreakpoint for the
\* record's script, and a record that was never given to the engine (it is
\* loaded into no script) has a negative actualId
C28_AcceptedByEngine ==
    \A k \in DOMAIN ag.breakpointMap :
        LET bp == ag.breakpointMap[k]
        IN /\ IsResolved(bp) =>
                [id |-> bp.actualId, script |-> bp.scriptId,
                 line |-> bp.actualLine, column |-> bp.actualColumn] \in g.accepted
           /\ bp.scriptId = NoScript => bp.actualId < 0

\* a record resolved at a column that is not the requested one, next to a
\* record resolved where it was requested
C28_Witness ==
    /\ \E k \in DOMAIN ag.breakpointMap :
          /\ IsResolved(ag.breakpointMap[k])
          /\ ag.breakpointMap[k].actualColumn # ag.breakpointMap[k].columnNumber
    /\ \E k \in DOMAIN ag.breakpointMap :
          /\ IsResolved(ag.breakpointMap[k])
          /\ ag.breakpointMap[k].actualColumn = ag.breakpointMap[k].columnNumber

\* the engine thread dispatches the entry DispatchedEntry, with the outcome
\* Outcome
DispatchStep ==
    /\ OnTop(EngineThread, "PCQ", "dispatch")
    /\ Len(g'.dispatched) = Len(g.dispatched) + 1

DispatchedEntry == Head(Top(stack[EngineThread]).cur)

\* the entry dispatched is a resume the agent carried out, a step, or a go or
\* step of the host: all of them end in ProtocolHandler::Continue
ContinueStep ==
    /\ DispatchStep
    /\ \/ /\ DispatchedEntry.type = "MessageReceived"
          /\ DispatchedEntry.msg \in {"Debugger.resume"} \cup StepMethods
          /\ g'.dispatched[Len(g'.dispatched)].out = "ok"
       \/ /\ DispatchedEntry.type = "HostRequest"
          /\ DispatchedEntry.msg \in {"Debugger.go", "Debugger.stepInto"}

\* a call of Connect that did not throw
ConnectStep ==
    /\ Len(g'.okCalls) = Len(g.okCalls) + 1
    /\ g'.okCalls[Len(g'.okCalls)] = "Connect"

\* C29: a Connect that succeeds leaves the startup state Pause if it was
\* given breakOnNextLine and Continue if not; a continue, step or go leaves
\* it Running; and no other step changes it
C29_StartupState ==
    /\ [][ConnectStep =>
            ph'.startupState = IF ph'.breakOnConnect THEN "Pause" ELSE "Continue"]_vars
    /\ [][ContinueStep => ph'.startupState = "Running"]_vars
    /\ [][ph'.startupState # ph.startupState => ConnectStep \/ ContinueStep]_vars

\* connected with breakOnNextLine, and a continue has since made the state
\* Running while the host was waiting for the debugger
C29_Witness ==
    /\ ph.startupState = "Running"
    /\ ph.breakOnConnect
    /\ g.okCalls = <<"Connect">>
    /\ ph.isConnected
    /\ ~ph.waitingForDebugger
    /\ g.waitRet # {}

\* the entry dispatched runs ProtocolHandler::RunIfWaitingForDebugger: a
\* Runtime.runIfWaitingForDebugger that the enabled Runtime agent answers, or
\* a Disconnect that HandleDisconnect does not refuse
RunIfWaitingStep ==
    /\ DispatchStep
    /\ \/ /\ DispatchedEntry.type = "MessageReceived"
          /\ DispatchedEntry.msg = "Runtime.runIfWaitingForDebugger"
          /\ g'.dispatched[Len(g'.dispatched)].out = "ok"
       \/ /\ DispatchedEntry.type = "Disconnect"
          /\ g'.dispatched[Len(g'.dispatched)].out # "threw"

\* the drain of a WaitForDebugger is at its locked block and finds the queue
\* empty and the wait over
PumpReleased ==
    /\ OnTop(EngineThread, "PCQ", "lock")
    /\ InWait(Pop(stack[EngineThread]))
    /\ ~ph.waitingForDebugger
    /\ ph.commandQueue = <<>>
    /\ stack'[EngineThread] # stack[EngineThread]

\* C30: RunIfWaitingForDebugger, from the Runtime agent or from
\* HandleDisconnect, leaves waitingForDebugger false; when the startup state
\* is Pause it leaves shouldPauseOnNextStatement set and an async break
\* requested, and when it is not it changes neither; and a drain called by
\* WaitForDebugger that finds the wait over and the queue empty returns
C30_RunIfWaiting ==
    /\ [][RunIfWaitingStep => ~ph'.waitingForDebugger]_vars
    /\ [][(RunIfWaitingStep /\ ph.startupState = "Pause") =>
            dbg'.shouldPauseOnNextStatement /\ eng'.asyncBreakRequested]_vars
    /\ [][(RunIfWaitingStep /\ ph.startupState # "Pause") =>
            /\ dbg'.shouldPauseOnNextStatement = dbg.shouldPauseOnNextStatement
            /\ eng'.asyncBreakRequested = eng.asyncBreakRequested]_vars
    /\ [][PumpReleased =>
            stack'[EngineThread] = AfterPCQ(Pop(stack[EngineThread]))]_vars

\* the host, paused at a break and waiting, was let run by
\* Runtime.runIfWaitingForDebugger in the startup state Pause: the pause
\* that the break had consumed is scheduled again
C30_Witness ==
    /\ ph.startupState = "Pause"
    /\ dbg.shouldPauseOnNextStatement
    /\ eng.asyncBreakRequested
    /\ ~ph.waitingForDebugger
    /\ ag.runtimeEnabled
    /\ g.breaks # {}
    /\ Len(g.dispatched) = 4
    /\ g.dispatched[4].out = "ok"
    /\ stack[EngineThread] = <<>>

\* Debugger::HandleBreak decides NoSkip and calls WaitForDebugger
BreakPumpStep ==
    /\ OnTop(EngineThread, "HDE", "handle")
    /\ Len(stack'[EngineThread]) = Len(stack[EngineThread]) + 1

\* the Debugger.go entry is appended behind the entries queued, and the flag
\* cleared, when the wait begins
GoEnqueued ==
    /\ ~ph'.deferredGo
    /\ ph'.waitingForDebugger
    /\ Len(ph'.commandQueue) = Len(ph.commandQueue) + 1
    /\ SubSeq(ph'.commandQueue, 1, Len(ph.commandQueue)) = ph.commandQueue
    /\ ph'.commandQueue[Len(ph'.commandQueue)].type = "HostRequest"
    /\ ph'.commandQueue[Len(ph'.commandQueue)].msg = "Debugger.go"

\* the breaks on the stack for which a Debugger.go was enqueued, by the place
\* HandleBreak is at
DeferredBreaks(pc) ==
    {k \in 1..Len(stack[EngineThread]) :
        /\ stack[EngineThread][k].fn = "HDE"
        /\ stack[EngineThread][k].pc = pc
        /\ stack[EngineThread][k].go # 0}

\* the nested pump of such a break has the entry before it, or has dispatched
\* it and is no longer waiting: it never waits for a command
GoPendingOrDone ==
    \A k \in DeferredBreaks("wait") :
        \/ stack[EngineThread][k].go \in QueuedIds \cup InBatch(EngineThread)
        \/ /\ stack[EngineThread][k].go \in DispatchedIds(World)
           /\ ~ph.waitingForDebugger

\* WaitForDebugger has returned to such a break: the entry was dispatched
GoDispatchedInPump ==
    \A k \in DeferredBreaks("tail") : stack[EngineThread][k].go \in DispatchedIds(World)

\* C31: a break that decides NoSkip with deferredGo set clears the flag and
\* appends one Debugger.go host request behind the entries queued as its wait
\* begins; its nested pump dispatches that entry before it returns and never
\* waits for another command; a break with the flag clear enqueues nothing,
\* and only a dispatched Debugger.deferredGo sets the flag
C31_DeferredGo ==
    /\ [](GoPendingOrDone /\ GoDispatchedInPump)
    /\ [][(BreakPumpStep /\ ph.deferredGo) => GoEnqueued]_vars
    /\ [][(BreakPumpStep /\ ~ph.deferredGo) =>
            ph'.commandQueue = ph.commandQueue /\ ~ph'.deferredGo]_vars
    /\ [][(ph'.deferredGo /\ ~ph.deferredGo) =>
            /\ DispatchStep
            /\ DispatchedEntry.type = "HostRequest"
            /\ DispatchedEntry.msg = "Debugger.deferredGo"]_vars

\* C32: a message is routed to a domain agent only while a frontend is
\* connected on the engine side and the agents exist
C32_RoutedWhileConnected == \A r \in g.routed : r.connected /\ r.agents

\* a WaitForDebugger call is on the engine thread's stack
WaitOnStack ==
    \E k \in 1..Len(stack[EngineThread]) :
        \/ stack[EngineThread][k].fn = "ApiWait"
        \/ stack[EngineThread][k].fn = "HDE" /\ stack[EngineThread][k].pc = "wait"

\* HandleBreak is between setting and clearing m_isRunningNestedMessageLoop
InNestedLoop ==
    \E k \in 1..Len(stack[EngineThread]) :
        /\ stack[EngineThread][k].fn = "HDE"
        /\ stack[EngineThread][k].pc \in {"wait", "tail"}

\* C33: while the process runs, waitingForDebugger is true only while a
\* WaitForDebugger call is on the engine thread's stack, and
\* isRunningNestedMessageLoop only while HandleBreak is around its
\* WaitForDebugger call
C33_FlagsWithinWait ==
    ~eng.crashed =>
        /\ ph.waitingForDebugger => WaitOnStack
        /\ dbg.isRunningNestedMessageLoop => InNestedLoop

\* C34: the response callback is invoked with the state of the Connect call
\* that installed it, and not once the Disconnect call that removed it has
\* returned
C34_CallbackOfConnection ==
    \A r \in g.invoked :
        /\ r.state = r.callback
        /\ r.returned => r.installed

\* C35: the response to a message goes to the connection the message was
\* sent in, never through the callback that a later Connect call installed
C35_AnsweredInConnection == g.crossed = {}

\* HandleBreak goes on after WaitForDebugger with the resume handler installed
ReleaseStep ==
    /\ OnTop(EngineThread, "HDE", "tail")
    /\ dbg.resumeEventCallback
    /\ stack'[EngineThread] # stack[EngineThread]

\* C36: paused and resumed alternate, paused first: neither is sent twice in
\* a row, and a pause released while the resume handler is installed is
\* followed by resumed
C36_PausedResumedAlternate ==
    /\ [](g.misordered = {})
    /\ [][ReleaseStep => g'.lastNote = "resumed"]_vars

\* a Debugger.resume that the agent carries out, or a step command, is
\* dispatched in the nested pump of a pause
ResumeInPauseStep ==
    /\ DispatchStep
    /\ NestedPumps # {}
    /\ dbg.isPaused
    /\ DispatchedEntry.type = "MessageReceived"
    /\ DispatchedEntry.msg \in {"Debugger.resume"} \cup StepMethods
    /\ g'.dispatched[Len(g'.dispatched)].out = "ok"

\* C37: when a resume or a step releases a pause, shouldPauseOnNextStatement
\* is set only if PauseOnNextStatement was called during that pause
C37_NoStalePause ==
    [][(ResumeInPauseStep /\ dbg'.shouldPauseOnNextStatement) => g.asked]_vars


\* C38: no two records of the breakpoint map refer to the same breakpoint of
\* the engine: two records that are set in the engine (actualId >= 0) have
\* different actualIds, so that removing one record leaves the engine
\* breakpoint of every other record in place
C38_DistinctActualIds ==
    \A k1, k2 \in DOMAIN ag.breakpointMap :
        (k1 # k2 /\ IsResolved(ag.breakpointMap[k1]))
            => ag.breakpointMap[k1].actualId # ag.breakpointMap[k2].actualId

\* C39: every Runtime.evaluate completes its callback exactly once, with
\* sendSuccess or sendFailure, on every path through RuntimeImpl::evaluate:
\* throwOnSideEffect, awaitPromise, the evaluation at a break, the global
\* evaluation, and also when the wrapper of the result throws
C39_CompletedOnce == \A r \in g.completions : r.completions = 1

\* C40: the mutex is not held while a queue entry is dispatched, while the
\* response callback or the observer callback of the command queue is
\* invoked, or while the asynchronous break is requested, and no thread that
\* holds the mutex locks it again: not a callback that re-enters SendCommand
\* or SendRequest, and not ProcessDeferredGo through SendRequest
C40_MutexFree == g.underLock = {} /\ g.relocked = {}

\* C40's case: the observer callback has been invoked by a SendCommand, an
\* entry has been dispatched, and a break has enqueued Debugger.go through
\* ProcessDeferredGo and is in its wait
C40_Witness ==
    /\ g.notified
    /\ g.dispatched # <<>>
    /\ DeferredBreaks("wait") # {}
    /\ g.holder = NoThread
====
